---- MODULE Spec2Model ----
(***************************************************************************)
(* Citation tracking engine of ivcap-crewai-service: the citation store,   *)
(* the DOI and PMID validators with their TTL caches, the duplicate        *)
(* detector with its merge, and the CitationManager that drives them.      *)
(*                                                                         *)
(* Python values are represented as follows.                               *)
(*   str            a TLA+ string, handled character by character          *)
(*   Optional[T]    a sequence of length <= 1: None is << >>, v is <<v>>   *)
(*   List[T]        a sequence                                             *)
(*   object / dict  a record; an absent dict key is a None field           *)
(* A reference to a stored citation is its 1-based position in the store.  *)
(***************************************************************************)
EXTENDS Integers, Sequences, FiniteSets, TLC

VARIABLES citations, doi_cache, pmid_cache, now, result, calls

vars == <<citations, doi_cache, pmid_cache, now, result, calls>>

----------------------------------------------------------------------------
(* Optional values and Python truthiness                                   *)

None == << >>

Some(v) == <<v>>

Val(o) == o[1]

\* `if x:` for an Optional[str] or an Optional[List]
Truthy(o) == o # << >> /\ Len(o[1]) > 0

\* `if n:` for an Optional[int]
TruthyInt(o) == o # << >> /\ o[1] # 0

----------------------------------------------------------------------------
(* Strings, character by character                                         *)

Ch(s, i) == SubSeq(s, i, i)

Digits == {"0", "1", "2", "3", "4", "5", "6", "7", "8", "9"}

LowerLetters == {"a", "b", "c", "d", "e", "f", "g", "h", "i", "j", "k", "l", "m",
                 "n", "o", "p", "q", "r", "s", "t", "u", "v", "w", "x", "y", "z"}

UpperToLower == [A |-> "a", B |-> "b", C |-> "c", D |-> "d", E |-> "e", F |-> "f",
                 G |-> "g", H |-> "h", I |-> "i", J |-> "j", K |-> "k", L |-> "l",
                 M |-> "m", N |-> "n", O |-> "o", P |-> "p", Q |-> "q", R |-> "r",
                 S |-> "s", T |-> "t", U |-> "u", V |-> "v", W |-> "w", X |-> "x",
                 Y |-> "y", Z |-> "z"]

Whitespace == {" ", "\t", "\n", "\r"}

RECURSIVE Lower(_)
\* str.lower()
Lower(s) == IF Len(s) = 0 THEN ""
            ELSE (IF Head(s) \in DOMAIN UpperToLower THEN UpperToLower[Head(s)] ELSE Head(s))
                 \o Lower(Tail(s))

RECURSIVE Upper(_)
\* str.upper()
Upper(s) == IF Len(s) = 0 THEN ""
            ELSE (IF \E u \in DOMAIN UpperToLower : UpperToLower[u] = Head(s)
                  THEN CHOOSE u \in DOMAIN UpperToLower : UpperToLower[u] = Head(s)
                  ELSE Head(s)) \o Upper(Tail(s))

RECURSIVE LStrip(_)
LStrip(s) == IF Len(s) > 0 /\ Head(s) \in Whitespace THEN LStrip(Tail(s)) ELSE s

RECURSIVE RStrip(_)
RStrip(s) == IF Len(s) > 0 /\ Ch(s, Len(s)) \in Whitespace
             THEN RStrip(SubSeq(s, 1, Len(s) - 1)) ELSE s

\* str.strip()
Strip(s) == RStrip(LStrip(s))

\* str.startswith(p)
StartsWith(s, p) == Len(s) >= Len(p) /\ SubSeq(s, 1, Len(p)) = p

\* s[n:]
Drop(s, n) == SubSeq(s, n + 1, Len(s))

RECURSIVE Replace(_, _, _)
\* str.replace(old, new): every non-overlapping occurrence, left to right
Replace(s, old, new) == IF Len(s) = 0 THEN ""
                        ELSE IF StartsWith(s, old) THEN new \o Replace(Drop(s, Len(old)), old, new)
                        ELSE Head(s) \o Replace(Tail(s), old, new)

RECURSIVE Filter(_, _)
\* the characters of s that belong to keep, in order
Filter(s, keep) == IF Len(s) = 0 THEN ""
                   ELSE (IF Head(s) \in keep THEN Head(s) ELSE "") \o Filter(Tail(s), keep)

\* str.isdigit()
IsDigit(s) == Len(s) > 0 /\ \A i \in 1..Len(s) : Ch(s, i) \in Digits

RECURSIVE IntToStr(_)
\* str(n) for n >= 0
IntToStr(n) == IF n < 10 THEN <<"0", "1", "2", "3", "4", "5", "6", "7", "8", "9">>[n + 1]
               ELSE IntToStr(n \div 10) \o IntToStr(n % 10)

RECURSIVE ParseInt(_)
\* int(s) for a string of decimal digits
ParseInt(s) ==
    IF Len(s) = 0 THEN 0
    ELSE 10 * ParseInt(SubSeq(s, 1, Len(s) - 1))
         + (CHOOSE n \in 0..9 : IntToStr(n) = Ch(s, Len(s)))

\* a float in [0, 1] is the exact fraction num / den, den > 0
Ratio(num, den) == [num |-> num, den |-> den]

Zero == Ratio(0, 1)

One == Ratio(1, 1)

\* r > p / 100
Exceeds(r, p) == r.num * 100 > p * r.den

\* r1 + r2
Plus(r1, r2) == Ratio(r1.num * r2.den + r2.num * r1.den, r1.den * r2.den)

\* r / n for an integer n > 0
Over(r, n) == Ratio(r.num, r.den * n)

\* (r1 + r2) / 2
Average(r1, r2) == Over(Plus(r1, r2), 2)

Positive(r) == r.num > 0

\* range(len(seq)), counted from 1
Positions(seq) == [i \in 1..Len(seq) |-> i]

RECURSIVE Join(_, _)
\* sep.join(parts)
Join(parts, sep) == IF Len(parts) = 0 THEN ""
                    ELSE IF Len(parts) = 1 THEN parts[1]
                    ELSE parts[1] \o sep \o Join(Tail(parts), sep)

\* index of the first character of s at or after position i that is not in cs
\* (Len(s) + 1 when there is none)
RECURSIVE SkipWhile(_, _, _)
SkipWhile(s, i, cs) == IF i <= Len(s) /\ Ch(s, i) \in cs THEN SkipWhile(s, i + 1, cs) ELSE i

\* index of the first character of s at or after position i that is in cs
\* (Len(s) + 1 when there is none)
RECURSIVE FindAny(_, _, _)
FindAny(s, i, cs) == IF i <= Len(s) /\ Ch(s, i) \notin cs THEN FindAny(s, i + 1, cs) ELSE i

----------------------------------------------------------------------------
(* citation_model.py: CSLName, CSLDate, CSLCitation                        *)

\* the Literal[...] of CSLCitation.type
CSLTypes == {"article", "article-journal", "article-magazine", "article-newspaper",
             "bill", "book", "broadcast", "chapter", "classic", "collection",
             "dataset", "document", "entry", "entry-dictionary", "entry-encyclopedia",
             "event", "figure", "graphic", "hearing", "interview", "legal_case",
             "legislation", "manuscript", "map", "motion_picture", "musical_score",
             "pamphlet", "paper-conference", "patent", "performance", "periodical",
             "personal_communication", "post", "post-weblog", "regulation", "report",
             "review", "review-book", "software", "song", "speech", "standard",
             "thesis", "treaty", "webpage"}

\* a CSLCitation with the field defaults of the class
BlankCitation == [id |-> "", type |-> "", author |-> None, editor |-> None,
                  title |-> None, container_title |-> None, issued |-> None,
                  publisher |-> None, volume |-> None, issue |-> None, page |-> None,
                  DOI |-> None, PMID |-> None, PMCID |-> None, ISBN |-> None,
                  ISSN |-> None, URL |-> None, abstract |-> None, keyword |-> None,
                  citation_number |-> None, added_by |-> None,
                  validated |-> FALSE, validation_method |-> None,
                  credibility_score |-> None, impact_factor |-> None,
                  citation_count |-> None, in_text_count |-> Some(0)]

\* CSLName(**a): the family validator strips the name and rejects an empty one
CSLName(a) == [family |-> Strip(a.family), given |-> a.given]

CSLNameValid(a) == Len(Strip(a.family)) > 0

\* CSLDate.get_year
DateGetYear(d) == IF Len(d.date_parts) > 0 /\ Len(d.date_parts[1]) > 0
                  THEN Some(d.date_parts[1][1]) ELSE None

\* CSLCitation.get_year
get_year(c) == IF c.issued # None THEN DateGetYear(Val(c.issued)) ELSE None

\* CSLCitation.get_first_author_family_name
get_first_author_family_name(c) == IF Truthy(c.author)
                                   THEN Some(Val(c.author)[1].family) ELSE None

RECURSIVE Weigh(_, _)
\* sum([w for f in fields if f]), fields holding the truth value of each field
Weigh(fields, w) == IF Len(fields) = 0 THEN 0
                    ELSE (IF Head(fields) THEN w ELSE 0) + Weigh(Tail(fields), w)

\* a completeness score that leaves the URL out of the identifier fields
CompletenessWithoutUrl(c) ==
    LET filled_fields == Weigh(<<Truthy(c.title), Truthy(c.author), c.issued # None,
                                 Truthy(c.DOI), Truthy(c.PMID)>>, 4)
                         + Weigh(<<Truthy(c.container_title), Truthy(c.publisher)>>, 3)
                         + Weigh(<<Truthy(c.volume), Truthy(c.issue), Truthy(c.page),
                                   Truthy(c.abstract)>>, 2)
    IN Ratio(filled_fields, 5 * 4 + 2 * 3 + 4 * 2)

\* CSLCitation.get_completeness_score, the weights counted in halves
get_completeness_score(c) ==
    LET core_fields == <<Truthy(c.title), Truthy(c.author), c.issued # None>>
        important_fields == <<Truthy(c.container_title), Truthy(c.publisher)>>
        identifier_fields == <<Truthy(c.DOI), Truthy(c.PMID), Truthy(c.URL)>>
        optional_fields == <<Truthy(c.volume), Truthy(c.issue), Truthy(c.page),
                             Truthy(c.abstract)>>
        total_fields == Len(core_fields) * 4 + Len(important_fields) * 3
                        + Len(identifier_fields) * 4 + Len(optional_fields) * 2
        filled_fields == Weigh(core_fields, 4) + Weigh(important_fields, 3)
                         + Weigh(identifier_fields, 4) + Weigh(optional_fields, 2)
    IN IF total_fields > 0 THEN Ratio(filled_fields, total_fields) ELSE Zero

\* pydantic's HttpUrl check on CSLCitation.URL: an http or https URL with a host
HttpUrlValid(u) == \/ (StartsWith(u, "http://") /\ Len(u) > 7 /\ Ch(u, 8) \notin {"/", "?", "#"})
                   \/ (StartsWith(u, "https://") /\ Len(u) > 8 /\ Ch(u, 9) \notin {"/", "?", "#"})

----------------------------------------------------------------------------
(* Validator caches: a dict from cache key to                              *)
(* {valid, metadata, timestamp}                                            *)

EmptyCache == [k \in {} |-> 0]

CachePut(cache, key, entry) == [k \in DOMAIN cache \cup {key} |->
                                   IF k = key THEN entry ELSE cache[k]]

\* DOIValidator.__init__ / PMIDValidator.__init__: cache_ttl default, seconds
cache_ttl == 86400

\* a metadata dict: an absent key is None
BlankMetadata == [DOI |-> None, PMID |-> None, PMCID |-> None, type |-> None,
                  title |-> None, container_title |-> None, volume |-> None,
                  issue |-> None, page |-> None, publisher |-> None, ISSN |-> None,
                  URL |-> None, abstract |-> None, author |-> None, editor |-> None,
                  issued |-> None, error |-> None]

----------------------------------------------------------------------------
(* doi_validator.py                                                        *)

\* re.match(r'^10\.\d{4,}/[^\s]+$', doi): "10.", digits up to position e - 1
\* (at least four), a slash, then one or more non-blanks
\* the prefix removal of DOIValidator._normalize_doi
\* DOIValidator._normalize_doi: Optional[str]
DOIValidator_normalize_doi(doi) ==
    LET DoiPatternMatches(p) ==
            /\ StartsWith(p, "10.")
            /\ \E e \in {SkipWhile(p, 4, Digits)} :
                  /\ e - 4 >= 4
                  /\ e <= Len(p) /\ Ch(p, e) = "/"
                  /\ Len(p) > e
                  /\ \A i \in (e + 1)..Len(p) : Ch(p, i) \notin Whitespace
    IN
        LET RemoveDoiPrefix(d) ==
                IF StartsWith(d, "http://doi.org/") THEN Replace(d, "http://doi.org/", "")
                ELSE IF StartsWith(d, "https://doi.org/") THEN Replace(d, "https://doi.org/", "")
                ELSE IF StartsWith(d, "doi:") THEN Replace(d, "doi:", "")
                ELSE d
        IN
            LET n == RemoveDoiPrefix(Lower(Strip(doi)))
            IN IF Len(doi) = 0 \/ ~DoiPatternMatches(n) THEN None ELSE Some(n)

\* DOIValidator._map_type
map_type(t) ==
    IF t = None THEN None
    ELSE LET x == Val(t)
         IN Some(CASE x = "journal-article" -> "article-journal"
                   [] x = "book-chapter" -> "chapter"
                   [] x = "posted-content" -> "report"
                   [] x = "proceedings-article" -> "paper-conference"
                   [] x \in {"book", "monograph", "edited-book", "reference-book"} -> "book"
                   [] x = "report" -> "report"
                   [] x = "dataset" -> "dataset"
                   [] x = "dissertation" -> "thesis"
                   [] OTHER -> x)

\* crossref_data.get(key, [None])[0] for a list-valued key
FirstOf(o) == IF o = None THEN None ELSE Some(Val(o)[1])

RECURSIVE NamedAuthors(_)
\* the {family, given} dicts of the entries that have a family name
NamedAuthors(as) ==
    IF Len(as) = 0 THEN << >>
    ELSE (IF Truthy(Head(as).family)
          THEN <<[family |-> Val(Head(as).family), given |-> Head(as).given]>>
          ELSE << >>) \o NamedAuthors(Tail(as))

\* the publication date: the first of published, published-print,
\* published-online, created that is present and has date-parts wins
RECURSIVE FirstUsableDate(_)
FirstUsableDate(fields) ==
    IF Len(fields) = 0 THEN None
    ELSE IF Head(fields) # None /\ Truthy(Val(Head(fields)).date_parts)
    THEN Some([kind |-> "dict", date_parts |-> Val(Val(Head(fields)).date_parts)])
    ELSE FirstUsableDate(Tail(fields))

\* DOIValidator._extract_metadata
DOIValidator_extract_metadata(msg) ==
    [BlankMetadata EXCEPT
        !.DOI = msg.DOI,
        !.type = map_type(msg.type),
        !.title = FirstOf(msg.title),
        !.container_title = FirstOf(msg.container_title),
        !.volume = msg.volume,
        !.issue = msg.issue,
        !.page = msg.page,
        !.publisher = msg.publisher,
        !.ISSN = FirstOf(msg.ISSN),
        !.URL = msg.URL,
        !.abstract = msg.abstract,
        !.author = IF msg.author = None THEN None
                   ELSE Some([kind |-> "dict", list |-> NamedAuthors(Val(msg.author))]),
        !.editor = IF msg.editor = None THEN None
                   ELSE Some([kind |-> "dict", list |-> NamedAuthors(Val(msg.editor))]),
        !.issued = FirstUsableDate(<<msg.published, msg.published_print,
                                     msg.published_online, msg.created>>)]

\* a registry answer: an HTTP response with a status and a body, or a
\* requests exception
HttpResponse(status, body) == [exc |-> "", status |-> status, body |-> body]

RequestFailure(exc) == [exc |-> exc, status |-> 0, body |-> << >>]

ErrorMetadata(text) == [BlankMetadata EXCEPT !.error = Some(text)]

\* what one validate call hands back, with the cache it leaves behind and
\* the number of registry requests it made
ValidateResult(valid, metadata, cache, key, queries) ==
    [valid |-> valid, metadata |-> metadata, cache |-> cache, key |-> key, queries |-> queries]

\* a TTL test that still honours an entry of age cache_ttl
CacheHitInclusive(cache, key, t) == key \in DOMAIN cache /\ t - cache[key].timestamp <= cache_ttl

\* the TTL test of validate_doi / validate_pmid
CacheHit(cache, key, t) == key \in DOMAIN cache /\ t - cache[key].timestamp < cache_ttl

\* a live answer that is cached: valid with its metadata, or invalid with None
CachedAnswer(cache, t, key, valid, metadata) ==
    ValidateResult(valid, metadata,
                   CachePut(cache, key, [valid |-> valid, metadata |-> metadata, timestamp |-> t]),
                   Some(key), 1)

\* a failure that is cached as an invalid identifier
CachedError(cache, key, text) ==
    ValidateResult(FALSE, Some(ErrorMetadata(text)),
                   CachePut(cache, key, [valid |-> FALSE, metadata |-> None, timestamp |-> 0]),
                   Some(key), 1)

\* a live answer that is not cached: (False, {"error": text})
UncachedError(cache, key, text) ==
    ValidateResult(FALSE, Some(ErrorMetadata(text)), cache, Some(key), 1)

\* validate_doi from the cache check on; resp is the registry's answer if a
\* request is made
ValidateDoiKey(cache, t, key, resp) ==
    IF CacheHit(cache, key, t)
    THEN ValidateResult(cache[key].valid, cache[key].metadata, cache, Some(key), 0)
    ELSE IF resp.exc = "Timeout" THEN UncachedError(cache, key, "Request timeout")
    ELSE IF resp.exc # "" THEN UncachedError(cache, key, resp.exc)
    ELSE IF resp.status = 200
    THEN CachedAnswer(cache, t, key, TRUE, Some(DOIValidator_extract_metadata(Val(resp.body))))
    ELSE IF resp.status = 404 THEN CachedAnswer(cache, t, key, FALSE, None)
    ELSE UncachedError(cache, key, "API returned " \o IntToStr(resp.status))

\* DOIValidator.validate_doi
validate_doi(cache, t, doi, resp) ==
    LET n == DOIValidator_normalize_doi(doi)
    IN IF n = None THEN ValidateResult(FALSE, None, cache, None, 0)
       ELSE ValidateDoiKey(cache, t, "doi:" \o Val(n), resp)

\* what create_citation_from_doi / create_citation_from_pmid does: the
\* exception it raises ("" when it returns), the citation it returns (None
\* for `return None`), and the validate call it made
CreateResult(raised, citation, v, cache) ==
    [raised |-> raised, citation |-> citation, valid |-> v.valid, metadata |-> v.metadata,
     key |-> v.key, queries |-> v.queries, cache |-> cache]

\* the citation id generated from the metadata when none is supplied;
\* fallback is the identifier-based id
GeneratedId(m, fallback) ==
    IF m.author # None /\ Len(Val(m.author).list) > 0
    THEN LET family == Val(m.author).list[1].family
         IN IF m.issued # None /\ Val(m.issued).kind = "dict"
            THEN Lower(family) \o IntToStr(Val(m.issued).date_parts[1][1])
            ELSE Lower(family)
    ELSE fallback

\* the metadata dict after `metadata["author"] = [CSLName(**a) ...]`,
\* `metadata["editor"] = ...` and `metadata["issued"] = CSLDate(**...)`
ConvertedMetadata(m) ==
    [m EXCEPT
        !.author = IF m.author = None THEN None
                   ELSE Some([kind |-> "CSLName",
                              list |-> [i \in 1..Len(Val(m.author).list) |->
                                           CSLName(Val(m.author).list[i])]]),
        !.editor = IF m.editor = None THEN None
                   ELSE Some([kind |-> "CSLName",
                              list |-> [i \in 1..Len(Val(m.editor).list) |->
                                           CSLName(Val(m.editor).list[i])]]),
        !.issued = IF m.issued = None THEN None
                   ELSE Some([kind |-> "CSLDate", date_parts |-> Val(m.issued).date_parts])]

\* CSLCitation(id=citation_id, **metadata, validated=True, validation_method=method)
CitationFromMetadata(id, m, method) ==
    [BlankCitation EXCEPT
        !.id = id,
        !.type = IF m.type = None THEN "" ELSE Val(m.type),
        !.author = IF m.author = None THEN None ELSE Some(Val(m.author).list),
        !.editor = IF m.editor = None THEN None ELSE Some(Val(m.editor).list),
        !.title = m.title,
        !.container_title = m.container_title,
        !.issued = IF m.issued = None THEN None
                   ELSE Some([date_parts |-> Val(m.issued).date_parts]),
        !.publisher = m.publisher,
        !.volume = m.volume,
        !.issue = m.issue,
        !.page = m.page,
        !.DOI = m.DOI,
        !.PMID = m.PMID,
        !.PMCID = m.PMCID,
        !.ISSN = m.ISSN,
        !.URL = m.URL,
        !.abstract = m.abstract,
        !.validated = TRUE,
        !.validation_method = Some(method)]

\* pydantic's validation of the CSLCitation fields the metadata fills
CitationFieldsValid(m) ==
    /\ m.type # None /\ Val(m.type) \in CSLTypes
    /\ m.URL = None \/ HttpUrlValid(Val(m.URL))

\* a list of author dicts that `[CSLName(**a) for a in ...]` accepts
NamesConvertible(o) ==
    o = None \/ \A i \in 1..Len(Val(o).list) : CSLNameValid(Val(o).list[i])

\* a list that already holds CSLName objects, on which `.get` and `**a` fail
HoldsObjects(o) == o # None /\ Val(o).kind = "CSLName" /\ Len(Val(o).list) > 0

\* the cache once the metadata dict its entry for v's key holds has become m
WithMetadata(v, m) == [v.cache EXCEPT ![Val(v.key)].metadata = Some(m)]

\* the construction of the citation from the converted dict m
ConstructCitation(v, id, m, method) ==
    IF ~CitationFieldsValid(m)
    THEN CreateResult("ValidationError", None, v, WithMetadata(v, m))
    ELSE CreateResult("", Some(CitationFromMetadata(id, m, method)), v, WithMetadata(v, m))

\* `metadata["issued"] = CSLDate(**metadata["issued"])`, then the construction
ConvertIssued(v, id, m, method) ==
    IF m.issued # None /\ Val(m.issued).kind = "CSLDate"
    THEN CreateResult("TypeError", None, v, WithMetadata(v, m))
    ELSE ConstructCitation(v, id, [m EXCEPT !.issued = ConvertedMetadata(m).issued], method)

\* `metadata["editor"] = [CSLName(**e) ...]` (DOI only), then the rest
ConvertEditor(v, id, m, method, with_editor) ==
    IF with_editor /\ HoldsObjects(m.editor)
    THEN CreateResult("TypeError", None, v, WithMetadata(v, m))
    ELSE IF with_editor /\ ~NamesConvertible(m.editor)
    THEN CreateResult("ValidationError", None, v, WithMetadata(v, m))
    ELSE ConvertIssued(v, id,
                       IF with_editor THEN [m EXCEPT !.editor = ConvertedMetadata(m).editor]
                       ELSE m,
                       method)

\* `metadata["author"] = [CSLName(**a) ...]`, then the rest
ConvertAuthor(v, id, m, method, with_editor) ==
    IF HoldsObjects(m.author) THEN CreateResult("TypeError", None, v, v.cache)
    ELSE IF ~NamesConvertible(m.author) THEN CreateResult("ValidationError", None, v, v.cache)
    ELSE ConvertEditor(v, id, [m EXCEPT !.author = ConvertedMetadata(m).author],
                       method, with_editor)

\* the id generation: `.get` on a CSLName object raises AttributeError
GenerateId(v, citation_id, m, fallback, method, with_editor) ==
    IF citation_id = None /\ HoldsObjects(m.author)
    THEN CreateResult("AttributeError", None, v, v.cache)
    ELSE ConvertAuthor(v,
                       IF citation_id = None THEN GeneratedId(m, fallback) ELSE Val(citation_id),
                       m, method, with_editor)

\* `not metadata` for a dict
\* the part of create_citation_from_doi / create_citation_from_pmid after the
\* validate call v: id generation, conversion of the metadata dict in place
\* (the dict is the one the cache entry holds), construction of the citation
BuildCitation(v, citation_id, fallback, method, with_editor) ==
    LET MetadataIsEmpty(m) == m = BlankMetadata
    IN
        IF ~v.valid \/ v.metadata = None \/ MetadataIsEmpty(Val(v.metadata))
        THEN CreateResult("", None, v, v.cache)
        ELSE GenerateId(v, citation_id, Val(v.metadata), fallback, method, with_editor)

\* self._normalize_doi(doi).replace("/", "_").replace(".", "_")
\* DOIValidator.create_citation_from_doi
create_citation_from_doi(cache, t, doi, citation_id, resp) ==
    LET DoiBasedId(nd) == IF nd = None THEN "" ELSE Replace(Replace(Val(nd), "/", "_"), ".", "_")
    IN
        BuildCitation(validate_doi(cache, t, doi, resp), citation_id,
                      DoiBasedId(DOIValidator_normalize_doi(doi)), "DOI", TRUE)

----------------------------------------------------------------------------
(* pmid_validator.py                                                       *)

\* the prefix removal of PMIDValidator._normalize_pmid
\* PMIDValidator._normalize_pmid: Optional[str]
normalize_pmid(pmid) ==
    LET RemovePmidPrefix(p) ==
            IF StartsWith(Upper(p), "PMID:") THEN Strip(Drop(p, 5)) ELSE p
    IN
        LET n == RemovePmidPrefix(Strip(pmid))
        IN IF Len(pmid) = 0 \/ ~IsDigit(n) THEN None ELSE Some(n)

MonthMap == [jan |-> 1, january |-> 1, feb |-> 2, february |-> 2, mar |-> 3, march |-> 3,
             apr |-> 4, april |-> 4, may |-> 5, jun |-> 6, june |-> 6, jul |-> 7, july |-> 7,
             aug |-> 8, august |-> 8, sep |-> 9, september |-> 9, oct |-> 10, october |-> 10,
             nov |-> 11, november |-> 11, dec |-> 12, december |-> 12]

\* PMIDValidator._parse_month: Optional[int]
parse_month(month_str) ==
    LET month_lower == Strip(Lower(month_str))
    IN IF IsDigit(month_lower) THEN Some(ParseInt(month_lower))
       ELSE IF month_lower \in DOMAIN MonthMap THEN Some(MonthMap[month_lower])
       ELSE None

\* the date_parts list built from the PubDate element
PubDateParts(pub_date) ==
    (IF Truthy(pub_date.year) THEN <<ParseInt(Val(pub_date.year))>> ELSE << >>)
    \o (IF Truthy(pub_date.month) /\ TruthyInt(parse_month(Val(pub_date.month)))
        THEN <<Val(parse_month(Val(pub_date.month)))>> ELSE << >>)
    \o (IF Truthy(pub_date.day) THEN <<ParseInt(Val(pub_date.day))>> ELSE << >>)

RECURSIVE PubmedAuthors(_)
\* the {family, given} dicts of the Author elements that have a LastName text
PubmedAuthors(as) ==
    IF Len(as) = 0 THEN << >>
    ELSE (IF Truthy(Head(as).last_name)
          THEN <<[family |-> Val(Head(as).last_name), given |-> Head(as).fore_name]>>
          ELSE << >>) \o PubmedAuthors(Tail(as))

RECURSIVE LastArticleId(_, _)
\* the text of the last ArticleId of the given IdType that has a text
LastArticleId(ids, id_type) ==
    IF Len(ids) = 0 THEN None
    ELSE LET e == ids[Len(ids)]
         IN IF e.id_type = id_type /\ Len(e.text) > 0 THEN Some(e.text)
            ELSE LastArticleId(SubSeq(ids, 1, Len(ids) - 1), id_type)

\* the text of an element, None unless the element is there with a text
TextOf(o) == IF Truthy(o) THEN o ELSE None

\* the fields taken from the JournalIssue element ji (None when absent)
JournalIssueFields(m, ji) ==
    IF ji = None THEN m
    ELSE [m EXCEPT !.volume = TextOf(Val(ji).volume),
                   !.issue = TextOf(Val(ji).issue),
                   !.issued = IF Val(ji).pub_date = None
                                 \/ Len(PubDateParts(Val(Val(ji).pub_date))) = 0
                              THEN None
                              ELSE Some([kind |-> "dict",
                                         date_parts |-> <<PubDateParts(Val(Val(ji).pub_date))>>])]

\* the fields taken from the Journal element j (None when absent)
JournalFields(m, j) ==
    IF j = None THEN m
    ELSE JournalIssueFields([m EXCEPT !.container_title = TextOf(Val(j).title),
                                      !.ISSN = TextOf(Val(j).issn)],
                            Val(j).journal_issue)

\* an ArticleId with IdType doi and a text never reaches the pmc branch
\* the fields taken from the Article element a and the ArticleIdList
ArticleFields(m, a, article_ids, pmid) ==
    LET PmcIds(ids) == [i \in 1..Len(ids) |->
                           IF ids[i].id_type = "doi" /\ Len(ids[i].text) > 0
                           THEN [id_type |-> "", text |-> ""] ELSE ids[i]]
    IN
        [JournalFields(m, a.journal) EXCEPT
            !.title = TextOf(a.title),
            !.abstract = TextOf(a.abstract),
            !.page = TextOf(a.pagination),
            !.author = IF a.author_list = None \/ Len(PubmedAuthors(Val(a.author_list))) = 0
                       THEN None
                       ELSE Some([kind |-> "dict", list |-> PubmedAuthors(Val(a.author_list))]),
            !.DOI = LastArticleId(article_ids, "doi"),
            !.PMCID = LastArticleId(PmcIds(article_ids), "pmc"),
            !.URL = Some("https://pubmed.ncbi.nlm.nih.gov/" \o pmid \o "/")]

\* PMIDValidator._extract_metadata
PMIDValidator_extract_metadata(elem, pmid) ==
    IF elem.article = None
    THEN [BlankMetadata EXCEPT !.PMID = Some(pmid), !.type = Some("article-journal")]
    ELSE ArticleFields([BlankMetadata EXCEPT !.PMID = Some(pmid),
                                             !.type = Some("article-journal")],
                       Val(elem.article), elem.article_ids, pmid)

\* validate_pmid from the cache check on; resp is the registry's answer if a
\* request is made; the body of a 200 answer is XML that parses or not, and
\* holds a PubmedArticle element or not
ValidatePmidKey(cache, t, pmid, key, resp) ==
    IF CacheHit(cache, key, t)
    THEN ValidateResult(cache[key].valid, cache[key].metadata, cache, Some(key), 0)
    ELSE IF resp.exc = "Timeout" THEN UncachedError(cache, key, "Request timeout")
    ELSE IF resp.exc # "" THEN UncachedError(cache, key, resp.exc)
    ELSE IF resp.status = 200
    THEN IF ~Val(resp.body).well_formed THEN UncachedError(cache, key, "XML parsing error")
         ELSE IF Val(resp.body).pubmed_article = None
         THEN CachedAnswer(cache, t, key, FALSE, None)
         ELSE CachedAnswer(cache, t, key, TRUE,
                  Some(PMIDValidator_extract_metadata(Val(Val(resp.body).pubmed_article), pmid)))
    ELSE UncachedError(cache, key, "API returned " \o IntToStr(resp.status))

\* PMIDValidator.validate_pmid
validate_pmid(cache, t, pmid, resp) ==
    LET n == normalize_pmid(pmid)
    IN IF n = None THEN ValidateResult(FALSE, None, cache, None, 0)
       ELSE ValidatePmidKey(cache, t, Val(n), "pmid:" \o Val(n), resp)

\* PMIDValidator.create_citation_from_pmid
create_citation_from_pmid(cache, t, pmid, citation_id, resp) ==
    BuildCitation(validate_pmid(cache, t, pmid, resp), citation_id, "pmid" \o pmid,
                  "PMID", FALSE)

----------------------------------------------------------------------------
(* duplicate_detector.py                                                   *)

\* DuplicateDetector.__init__ defaults, in hundredths
title_threshold == 85

author_threshold == 90

\* the first-author similarity above which the second authors are compared,
\* in hundredths
second_author_threshold == 80

RECURSIVE RunLength(_, _, _, _, _, _)
\* length of the common run of a[i..ahi] and b[j..bhi] that starts at i and j
RunLength(a, b, i, j, ahi, bhi) ==
    IF i <= ahi /\ j <= bhi /\ Ch(a, i) = Ch(b, j)
    THEN 1 + RunLength(a, b, i + 1, j + 1, ahi, bhi) ELSE 0

\* of two blocks the longer one, the earlier one when they are equally long
EarlierOrLonger(earlier, later) == IF later.k > earlier.k THEN later ELSE earlier

RECURSIVE LongestInRow(_, _, _, _, _, _)
\* the longest run that starts at i in a and at j or later in b
LongestInRow(a, b, i, j, ahi, bhi) ==
    IF j > bhi THEN [i |-> i, j |-> j, k |-> 0]
    ELSE EarlierOrLonger([i |-> i, j |-> j, k |-> RunLength(a, b, i, j, ahi, bhi)],
                         LongestInRow(a, b, i, j + 1, ahi, bhi))

RECURSIVE LongestFrom(_, _, _, _, _, _)
\* difflib's find_longest_match on a[i..ahi], b[blo..bhi]: the longest block,
\* the one that starts earliest in a, then earliest in b
LongestFrom(a, b, i, ahi, blo, bhi) ==
    IF i > ahi THEN [i |-> i, j |-> blo, k |-> 0]
    ELSE EarlierOrLonger(LongestInRow(a, b, i, blo, ahi, bhi),
                         LongestFrom(a, b, i + 1, ahi, blo, bhi))

RECURSIVE MatchedChars(_, _, _, _, _, _)

\* the block m and the blocks difflib finds to its left and to its right
BlocksAround(a, b, alo, ahi, blo, bhi, m) ==
    IF m.k = 0 THEN 0
    ELSE m.k + MatchedChars(a, b, alo, m.i - 1, blo, m.j - 1)
             + MatchedChars(a, b, m.i + m.k, ahi, m.j + m.k, bhi)

\* the total size of difflib's matching blocks of a[alo..ahi] and b[blo..bhi]
MatchedChars(a, b, alo, ahi, blo, bhi) ==
    BlocksAround(a, b, alo, ahi, blo, bhi, LongestFrom(a, b, alo, ahi, blo, bhi))

\* SequenceMatcher(None, a, b).ratio() for strings shorter than 200 characters
SequenceRatio(a, b) ==
    IF Len(a) + Len(b) = 0 THEN One
    ELSE Ratio(2 * MatchedChars(a, b, 1, Len(a), 1, Len(b)), Len(a) + Len(b))

\* the characters the regular expression class \w matches
WordChars == LowerLetters \cup DOMAIN UpperToLower \cup Digits \cup {"_"}

RECURSIVE CollapseSpaces(_)
\* re.sub(r'\s+', ' ', s)
CollapseSpaces(s) ==
    IF Len(s) = 0 THEN ""
    ELSE IF Head(s) \in Whitespace THEN " " \o CollapseSpaces(LStrip(s))
    ELSE Head(s) \o CollapseSpaces(Tail(s))

\* `if doi.startswith(prefix): doi = doi[len(prefix):]`
DropPrefix(s, prefix) == IF StartsWith(s, prefix) THEN Drop(s, Len(prefix)) ELSE s

\* DuplicateDetector._normalize_doi; re.sub(r'[^a-z0-9./]', '', doi) keeps
\* the lower-case letters, the digits, "." and "/"
DuplicateDetector_normalize_doi(doi) ==
    Filter(DropPrefix(DropPrefix(DropPrefix(Strip(Lower(doi)), "http://doi.org/"),
                                 "https://doi.org/"),
                      "doi:"),
           LowerLetters \cup Digits \cup {".", "/"})

\* re.sub(r'/$', '', url)
\* re.sub(r'^https?://(www\.)?', '', url)
\* DuplicateDetector._normalize_url
normalize_url(url) ==
    LET DropTrailingSlash(v) ==
            IF Len(v) > 0 /\ Ch(v, Len(v)) = "/" THEN SubSeq(v, 1, Len(v) - 1) ELSE v
    IN
        LET DropScheme(u) ==
                IF StartsWith(u, "https://") THEN DropPrefix(Drop(u, 8), "www.")
                ELSE IF StartsWith(u, "http://") THEN DropPrefix(Drop(u, 7), "www.")
                ELSE u
        IN
                              DropTrailingSlash(DropScheme(Strip(Lower(url))))

\* DuplicateDetector._normalize_title
normalize_title(title) ==
    Strip(CollapseSpaces(Filter(Lower(title), WordChars \cup Whitespace)))

\* DuplicateDetector._title_similarity
title_similarity(title1, title2) ==
    IF ~Truthy(title1) \/ ~Truthy(title2) THEN Zero
    ELSE SequenceRatio(normalize_title(Val(title1)), normalize_title(Val(title2)))

\* DuplicateDetector._format_author
format_author(author) ==
    Strip(Filter(Lower(author.family), WordChars \cup Whitespace)
          \o " "
          \o Filter(Lower(IF author.given = None THEN "" ELSE Val(author.given)),
                    WordChars \cup Whitespace))

\* the second authors are averaged in when the first authors match well and
\* both lists have more than one author
WithSecondAuthor(a1, a2, similarity) ==
    IF Exceeds(similarity, second_author_threshold) /\ Len(a1) > 1 /\ Len(a2) > 1
    THEN Average(similarity, SequenceRatio(format_author(a1[2]), format_author(a2[2])))
    ELSE similarity

\* DuplicateDetector._author_similarity
author_similarity(authors1, authors2) ==
    IF ~Truthy(authors1) \/ ~Truthy(authors2) THEN Zero
    ELSE WithSecondAuthor(Val(authors1), Val(authors2),
                          SequenceRatio(format_author(Val(authors1)[1]),
                                        format_author(Val(authors2)[1])))

\* DuplicateDetector._year_match: `if year1 and year2: return year1 == year2`,
\* else False
year_match(cit1, cit2) ==
    LET year1 == get_year(cit1)
        year2 == get_year(cit2)
    IN TruthyInt(year1) /\ TruthyInt(year2) /\ Val(year1) = Val(year2)

\* a fuzzy strategy that does not look at the years
FuzzyScoreWithoutYear(title_sim, author_sim, years_match) ==
    IF Exceeds(title_sim, title_threshold) /\ Exceeds(author_sim, author_threshold)
    THEN Average(title_sim, author_sim)
    ELSE Zero

\* strategy 4 of _calculate_duplicate_score: all three must match
FuzzyScore(title_sim, author_sim, years_match) ==
    IF /\ Exceeds(title_sim, title_threshold)
       /\ Exceeds(author_sim, author_threshold)
       /\ years_match
    THEN Average(title_sim, author_sim)
    ELSE Zero

\* a score in which two different DOIs settle the matter: the PMID and URL
\* strategies are tried only when a DOI is missing
ScoreDecidedByDoi(cit1, cit2) ==
    IF Truthy(cit1.DOI) /\ Truthy(cit2.DOI)
    THEN IF DuplicateDetector_normalize_doi(Val(cit1.DOI))
            = DuplicateDetector_normalize_doi(Val(cit2.DOI))
         THEN One
         ELSE FuzzyScore(title_similarity(cit1.title, cit2.title),
                         author_similarity(cit1.author, cit2.author),
                         year_match(cit1, cit2))
    ELSE IF Truthy(cit1.PMID) /\ Truthy(cit2.PMID) /\ Val(cit1.PMID) = Val(cit2.PMID)
    THEN One
    ELSE IF /\ Truthy(cit1.URL) /\ Truthy(cit2.URL)
            /\ normalize_url(Val(cit1.URL)) = normalize_url(Val(cit2.URL))
    THEN One
    ELSE FuzzyScore(title_similarity(cit1.title, cit2.title),
                    author_similarity(cit1.author, cit2.author),
                    year_match(cit1, cit2))

\* DuplicateDetector._calculate_duplicate_score
calculate_duplicate_score(cit1, cit2) ==
    IF /\ Truthy(cit1.DOI) /\ Truthy(cit2.DOI)
       /\ DuplicateDetector_normalize_doi(Val(cit1.DOI)) = DuplicateDetector_normalize_doi(Val(cit2.DOI))
    THEN One
    ELSE IF Truthy(cit1.PMID) /\ Truthy(cit2.PMID) /\ Val(cit1.PMID) = Val(cit2.PMID)
    THEN One
    ELSE IF /\ Truthy(cit1.URL) /\ Truthy(cit2.URL)
            /\ normalize_url(Val(cit1.URL)) = normalize_url(Val(cit2.URL))
    THEN One
    ELSE FuzzyScore(title_similarity(cit1.title, cit2.title),
                    author_similarity(cit1.author, cit2.author),
                    year_match(cit1, cit2))

\* DuplicateDetector.find_duplicates: the positions in existing_citations of
\* the records it returns, in order
find_duplicates(citation, existing_citations) ==
    SelectSeq(Positions(existing_citations),
              LAMBDA i : /\ existing_citations[i].id # citation.id
                         /\ Positive(calculate_duplicate_score(citation,
                                                               existing_citations[i])))

\* a merge of fields in which a value of duplicate's replaces original's
MergedPreferringDuplicate(orig_value, dup_value) ==
    IF Truthy(dup_value) THEN dup_value ELSE orig_value

\* a merge of fields that takes the value of duplicate's whatever it is
TakenFromDuplicate(orig_value, dup_value) == dup_value

\* the value of a merged field: original's unless it is empty and duplicate's is not
MergedStr(orig_value, dup_value) ==
    IF ~Truthy(orig_value) /\ Truthy(dup_value) THEN dup_value ELSE orig_value

\* a quality score after the merge: the higher one
MergedScore(orig_value, dup_value) ==
    IF TruthyInt(dup_value) /\ (~TruthyInt(orig_value) \/ Val(dup_value) > Val(orig_value))
    THEN dup_value ELSE orig_value

\* a merge of authors in which a list as long as original's replaces it
MergedAuthorOnTie(original, duplicate) ==
    IF /\ Truthy(duplicate.author)
       /\ \/ ~Truthy(original.author)
          \/ Len(Val(duplicate.author)) >= Len(Val(original.author))
    THEN duplicate.author ELSE original.author

\* original.author after the merge: the longer list
MergedAuthor(original, duplicate) ==
    IF /\ Truthy(duplicate.author)
       /\ \/ ~Truthy(original.author)
          \/ Len(Val(duplicate.author)) > Len(Val(original.author))
    THEN duplicate.author ELSE original.author

\* a merge in which original takes over duplicate's validation state
ValidationOfDuplicate(original, duplicate) ==
    [validated |-> duplicate.validated, validation_method |-> duplicate.validation_method]

\* original.validated and original.validation_method after the merge
MergedValidation(original, duplicate) ==
    IF duplicate.validated /\ ~original.validated
    THEN [validated |-> TRUE, validation_method |-> duplicate.validation_method]
    ELSE [validated |-> original.validated, validation_method |-> original.validation_method]

\* a merge that puts the duplicate in the place of the original
ReplacedByDuplicate(original, duplicate) == duplicate

\* the first date_parts entry of an issued date, [] when there is none
FirstDateParts(issued) ==
    IF Len(Val(issued).date_parts) > 0 THEN Val(issued).date_parts[1] ELSE << >>

\* DuplicateDetector.merge_citations: original after the merge
merge_citations(original, duplicate) ==
    [original EXCEPT
        !.title = MergedStr(original.title, duplicate.title),
        !.container_title = MergedStr(original.container_title, duplicate.container_title),
        !.publisher = MergedStr(original.publisher, duplicate.publisher),
        !.volume = MergedStr(original.volume, duplicate.volume),
        !.issue = MergedStr(original.issue, duplicate.issue),
        !.page = MergedStr(original.page, duplicate.page),
        !.DOI = MergedStr(original.DOI, duplicate.DOI),
        !.PMID = MergedStr(original.PMID, duplicate.PMID),
        !.PMCID = MergedStr(original.PMCID, duplicate.PMCID),
        !.ISBN = MergedStr(original.ISBN, duplicate.ISBN),
        !.ISSN = MergedStr(original.ISSN, duplicate.ISSN),
        !.URL = MergedStr(original.URL, duplicate.URL),
        !.abstract = MergedStr(original.abstract, duplicate.abstract),
        !.keyword = MergedStr(original.keyword, duplicate.keyword),
        !.author = MergedAuthor(original, duplicate),
        !.issued = IF duplicate.issued # None /\ original.issued # None
                   THEN IF Len(FirstDateParts(duplicate.issued)) > Len(FirstDateParts(original.issued))
                        THEN duplicate.issued ELSE original.issued
                   ELSE IF duplicate.issued # None THEN duplicate.issued
                   ELSE original.issued,
        !.validated = MergedValidation(original, duplicate).validated,
        !.validation_method = MergedValidation(original, duplicate).validation_method,
        !.credibility_score = MergedScore(original.credibility_score, duplicate.credibility_score),
        !.impact_factor = MergedScore(original.impact_factor, duplicate.impact_factor),
        !.citation_count = MergedScore(original.citation_count, duplicate.citation_count),
        !.in_text_count = IF TruthyInt(duplicate.in_text_count)
                          THEN Some((IF TruthyInt(original.in_text_count)
                                     THEN Val(original.in_text_count) ELSE 0)
                                    + Val(duplicate.in_text_count))
                          ELSE original.in_text_count]

----------------------------------------------------------------------------
(* citation_model.py: CitationDatabase                                     *)

\* `for cit in self.citations: if cit.id == citation_id: return cit`:
\* position of the first record with the id, 0 when the loop ends
FirstWithId(cits, citation_id) ==
    LET found == SelectSeq(Positions(cits), LAMBDA i : cits[i].id = citation_id)
    IN IF Len(found) = 0 THEN 0 ELSE found[1]

\* CitationDatabase.get_citation: position of the record, 0 for None
get_citation(cits, citation_id) == FirstWithId(cits, citation_id)

\* a numbering that starts at 0: the length read before the append, not + 1
NumberedFromLength(cits, citation) ==
    IF citation.citation_number = None
    THEN [citation EXCEPT !.citation_number = Some(Len(cits))]
    ELSE citation

\* the citation with its number assigned if it has none
Numbered(cits, citation) ==
    IF citation.citation_number = None
    THEN [citation EXCEPT !.citation_number = Some(Len(cits) + 1)]
    ELSE citation

\* an add that replaces the stored record by the new citation
AddOrReplace(cits, citation, existing) ==
    IF existing # 0
    THEN [citations |-> [cits EXCEPT ![existing] =
                            [citation EXCEPT !.citation_number = cits[existing].citation_number]],
          returned |-> existing]
    ELSE [citations |-> Append(cits, Numbered(cits, citation)), returned |-> Len(cits) + 1]

\* add_citation once the id has been looked up: existing is the position of
\* the record with that id, 0 when there is none
AddUnlessExisting(cits, citation, existing) ==
    IF existing # 0 THEN [citations |-> cits, returned |-> existing]
    ELSE [citations |-> Append(cits, Numbered(cits, citation)), returned |-> Len(cits) + 1]

\* an add without the lookup of the id
add_citation_unchecked(cits, citation) == AddUnlessExisting(cits, citation, 0)

\* CitationDatabase.add_citation: the list afterwards and the position of the
\* record returned
add_citation(cits, citation) ==
    AddUnlessExisting(cits, citation, FirstWithId(cits, citation.id))

\* CitationDatabase.get_citations_count
get_citations_count(cits) == Len(cits)

RECURSIVE SumOfScores(_)
\* sum([cit.get_completeness_score() for cit in self.citations])
SumOfScores(cits) == IF Len(cits) = 0 THEN Zero
                     ELSE Plus(get_completeness_score(Head(cits)), SumOfScores(Tail(cits)))

\* CitationDatabase.get_average_completeness
get_average_completeness(cits) ==
    IF Len(cits) = 0 THEN Zero ELSE Over(SumOfScores(cits), Len(cits))

----------------------------------------------------------------------------
(* The registries and the callers' inputs                                  *)

\* a Crossref message with no field set
BlankWork == [DOI |-> None, type |-> None, title |-> None, container_title |-> None,
              volume |-> None, issue |-> None, page |-> None, publisher |-> None,
              ISSN |-> None, URL |-> None, abstract |-> None, author |-> None,
              editor |-> None, published |-> None, published_print |-> None,
              published_online |-> None, created |-> None]

\* the works the DOI registry knows, by DOI
CrossrefWorks ==
    [x \in {"10.1038/n1", "10.1038/n2"} |->
        IF x = "10.1038/n1"
        THEN [BlankWork EXCEPT
                !.DOI = Some("10.1038/n1"),
                !.type = Some("journal-article"),
                !.title = Some(<<"Deep Nets">>),
                !.container_title = Some(<<"Nature">>),
                !.author = Some(<<[family |-> Some("Smith"), given |-> Some("J")],
                                  [family |-> None, given |-> Some("Anon")]>>),
                !.published_print = Some([date_parts |-> Some(<<<<2020, 6>>>>)]),
                !.created = Some([date_parts |-> Some(<<<<2019, 1, 2>>>>)]),
                !.URL = Some("https://doi.org/10.1038/n1")]
        ELSE [BlankWork EXCEPT
                !.DOI = Some("10.1038/n2"),
                !.type = Some("dataset"),
                !.title = Some(<<"Deep Nets!">>),
                !.publisher = Some("Zenodo"),
                !.URL = Some("http://example.com/a")]]

BlankArticleBody == [title |-> None, abstract |-> None, journal |-> None,
                     pagination |-> None, author_list |-> None]

\* the articles the PMID registry knows, by PMID
PubmedArticles ==
    [x \in {"123", "45"} |->
        IF x = "123"
        THEN [article |-> Some([BlankArticleBody EXCEPT
                  !.title = Some("Deep nets"),
                  !.journal = Some([title |-> Some("Nature"), issn |-> None,
                                    journal_issue |-> Some([volume |-> Some("7"), issue |-> None,
                                        pub_date |-> Some([year |-> Some("2020"),
                                                           month |-> Some("Jun"),
                                                           day |-> Some("15")])])]),
                  !.author_list = Some(<<[last_name |-> Some("Smith"), fore_name |-> Some("J")],
                                         [last_name |-> Some("Lee"), fore_name |-> None]>>)]),
              article_ids |-> <<[id_type |-> "doi", text |-> "10.1038/N1"],
                                [id_type |-> "pmc", text |-> "PMC9"]>>]
        ELSE [article |-> Some([BlankArticleBody EXCEPT
                  !.title = Some("Other"),
                  !.journal = Some([title |-> None, issn |-> None,
                                    journal_issue |-> Some([volume |-> None, issue |-> None,
                                        pub_date |-> Some([year |-> Some("2021"),
                                                           month |-> Some("Spring"),
                                                           day |-> None])])])]),
              article_ids |-> << >>]]

\* the answers a request can get that are neither 200 nor 404
TransientAnswers == {HttpResponse(500, None), RequestFailure("Timeout"),
                     RequestFailure("ConnectionError")}

\* an efetch answer whose XML does not parse
MalformedXml == HttpResponse(200, Some([well_formed |-> FALSE, pubmed_article |-> None]))

\* the DOI registry's answer to GET <base>/<doi> when it is up: the work, or 404
CrossrefAnswer(n) ==
    IF n # None /\ Val(n) \in DOMAIN CrossrefWorks
    THEN HttpResponse(200, Some(CrossrefWorks[Val(n)]))
    ELSE HttpResponse(404, None)

\* the PMID registry's answer to an efetch request when it is up: the
\* article, or a result set without a PubmedArticle
PubmedAnswer(n) ==
    IF n # None /\ Val(n) \in DOMAIN PubmedArticles
    THEN HttpResponse(200, Some([well_formed |-> TRUE,
                                 pubmed_article |-> Some(PubmedArticles[Val(n)])]))
    ELSE HttpResponse(200, Some([well_formed |-> TRUE, pubmed_article |-> None]))

\* the citation_id an add is given
CitationIds == {None, Some("x1")}

----------------------------------------------------------------------------
(* citation_manager.py                                                     *)

\* the largest store explored
MaxCitations == 2

\* what the last call did: the operation and its arguments, the exception
\* raised ("" when it returned), the position in the store of the record
\* returned (0 when none), the positions find_duplicates returned, the
\* citation that was built, the validate call made on the way, and for the
\* read-only calls the report, the text or the score returned
NoCall == [op |-> "", arg |-> "", citation_id |-> None, raised |-> "", returned |-> 0,
           duplicates |-> << >>, built |-> None, valid |-> FALSE, metadata |-> None,
           key |-> None, queries |-> 0, answer |-> None, report |-> None,
           ids |-> None, page |-> None, text |-> None, score |-> None,
           input |-> None, output |-> None]

\* the outcome of an add that called add_citation
Added(added, duplicates, citation) ==
    [citations |-> added.citations, raised |-> "", returned |-> added.returned,
     duplicates |-> duplicates, built |-> Some(citation)]

\* a merge into the last duplicate found instead of the first
MergeIntoLast(cits, citation, duplicates) ==
    IF Len(duplicates) > 0
    THEN [citations |-> [cits EXCEPT ![duplicates[Len(duplicates)]] = merge_citations(@, citation)],
          raised |-> "", returned |-> duplicates[Len(duplicates)],
          duplicates |-> duplicates, built |-> Some(citation)]
    ELSE Added(add_citation(cits, citation), duplicates, citation)

\* a merge that also takes over the duplicate's citation_number
MergeIntoRenumbered(cits, citation, duplicates) ==
    IF Len(duplicates) > 0
    THEN [citations |-> [cits EXCEPT ![duplicates[1]] =
                            [merge_citations(@, citation) EXCEPT
                                !.citation_number = citation.citation_number]],
          raised |-> "", returned |-> duplicates[1],
          duplicates |-> duplicates, built |-> Some(citation)]
    ELSE Added(add_citation(cits, citation), duplicates, citation)

\* the merge into the first duplicate found, or the add to the database
MergeInto(cits, citation, duplicates) ==
    IF Len(duplicates) > 0
    THEN [citations |-> [cits EXCEPT ![duplicates[1]] = merge_citations(@, citation)],
          raised |-> "", returned |-> duplicates[1],
          duplicates |-> duplicates, built |-> Some(citation)]
    ELSE Added(add_citation(cits, citation), duplicates, citation)

\* the duplicate search for the new citation and what follows it
MergeOrAdd(cits, citation) == MergeInto(cits, citation, find_duplicates(citation, cits))

\* an add that hands the validator's None back to the caller and stores a
\* placeholder for it
AddValidatedOrPlaceholder(cits, created, added_by) ==
    IF created.raised # ""
    THEN [citations |-> cits, raised |-> created.raised, returned |-> 0,
          duplicates |-> << >>, built |-> None]
    ELSE IF created.citation = None
    THEN [citations |-> Append(cits, Numbered(cits, [BlankCitation EXCEPT !.added_by = added_by])),
          raised |-> "", returned |-> Len(cits) + 1, duplicates |-> << >>, built |-> None]
    ELSE MergeOrAdd(cits, [Val(created.citation) EXCEPT !.added_by = added_by])

\* add_from_doi / add_from_pmid after create_citation_from_*: the check of
\* the citation, the duplicate search, the merge into the first duplicate or
\* the add to the database
AddValidated(cits, created, added_by) ==
    IF created.raised # ""
    THEN [citations |-> cits, raised |-> created.raised, returned |-> 0,
          duplicates |-> << >>, built |-> None]
    ELSE IF created.citation = None
    THEN [citations |-> cits, raised |-> "ValueError", returned |-> 0,
          duplicates |-> << >>, built |-> None]
    ELSE MergeOrAdd(cits, [Val(created.citation) EXCEPT !.added_by = added_by])

\* the call record of an add_from_doi / add_from_pmid
AddResult(op, arg, citation_id, created, added, answer) ==
    [NoCall EXCEPT !.op = op, !.arg = arg, !.citation_id = citation_id,
                   !.raised = added.raised, !.returned = added.returned,
                   !.duplicates = added.duplicates, !.built = added.built,
                   !.valid = created.valid, !.metadata = created.metadata,
                   !.key = created.key, !.queries = created.queries,
                   !.answer = IF created.queries > 0 THEN Some(answer) ELSE None]

\* CitationManager.add_from_doi; the request, if one is made, gets the
\* registry's answer or one of failures
add_from_doi(doi, citation_id, added_by, failures) ==
    \E answer \in failures \cup {CrossrefAnswer(DOIValidator_normalize_doi(doi))} :
      \E created \in {create_citation_from_doi(doi_cache, now, doi, citation_id, answer)} :
        \E added \in {AddValidated(citations, created, added_by)} :
           /\ Len(added.citations) <= MaxCitations
           /\ doi_cache' = created.cache
           /\ citations' = added.citations
           /\ result' = AddResult("add_from_doi", doi, citation_id, created, added, answer)
           /\ UNCHANGED <<pmid_cache, now, calls>>

\* CitationManager.add_from_pmid; the request, if one is made, gets the
\* registry's answer or one of failures
add_from_pmid(pmid, citation_id, added_by, failures) ==
    \E answer \in failures \cup {PubmedAnswer(normalize_pmid(pmid))} :
      \E created \in {create_citation_from_pmid(pmid_cache, now, pmid, citation_id, answer)} :
        \E added \in {AddValidated(citations, created, added_by)} :
           /\ Len(added.citations) <= MaxCitations
           /\ pmid_cache' = created.cache
           /\ citations' = added.citations
           /\ result' = AddResult("add_from_pmid", pmid, citation_id, created, added, answer)
           /\ UNCHANGED <<doi_cache, now, calls>>

\* add_from_url after the duplicate search: the first duplicate is returned
\* as it is, or the citation is added to the database
ReturnOrAdd(cits, citation, duplicates) ==
    IF Len(duplicates) > 0
    THEN [citations |-> cits, raised |-> "", returned |-> duplicates[1],
          duplicates |-> duplicates, built |-> Some(citation)]
    ELSE Added(add_citation(cits, citation), duplicates, citation)

\* urlparse(url).netloc for a URL with an alphabetic scheme or none: what
\* follows "scheme://" up to the path, the query or the fragment
\* the id of a URL citation: the one supplied, else web_<domain>
\* the body of add_from_url
AddUrl(cits, url, citation_id, added_by) ==
    LET UrlCitationId(u2, cid) ==
            LET Netloc(u) ==
                    LET c == FindAny(u, 1, {":"})
                    IN IF c < Len(u) - 1 /\ SubSeq(u, c + 1, c + 2) = "//"
                       THEN SubSeq(u, c + 3, FindAny(u, c + 3, {"/", "?", "#"}) - 1)
                       ELSE ""
            IN
                IF cid = None \/ Val(cid) = ""
                THEN "web_" \o Replace(Netloc(u2), ".", "_") ELSE Val(cid)
    IN
        IF ~HttpUrlValid(url)
        THEN [citations |-> cits, raised |-> "ValidationError", returned |-> 0,
              duplicates |-> << >>, built |-> None]
        ELSE LET citation == [BlankCitation EXCEPT !.id = UrlCitationId(url, citation_id),
                                 !.type = "webpage", !.URL = Some(url), !.added_by = added_by,
                                 !.validated = FALSE, !.validation_method = Some("URL")]
             IN ReturnOrAdd(cits, citation, find_duplicates(citation, cits))

\* CitationManager.add_from_url
add_from_url(url, citation_id, added_by) ==
    \E added \in {AddUrl(citations, url, citation_id, added_by)} :
       /\ Len(added.citations) <= MaxCitations
       /\ citations' = added.citations
       /\ result' = [NoCall EXCEPT !.op = "add_from_url", !.arg = url,
                        !.citation_id = citation_id, !.raised = added.raised,
                        !.returned = added.returned, !.duplicates = added.duplicates,
                        !.built = added.built]
       /\ UNCHANGED <<doi_cache, pmid_cache, now, calls>>

\* the report of validate_all; an issue names the record and, for a
\* duplicate issue, the ids of the later records found
ValidationReport(cits) ==
    LET later(i) == SubSeq(cits, i + 1, Len(cits))
        unvalidated == SelectSeq(Positions(cits), LAMBDA i : ~cits[i].validated)
        all_duplicates == SelectSeq(Positions(cits),
                              LAMBDA i : Len(find_duplicates(cits[i], later(i))) > 0)
        validated == Len(cits) - Len(unvalidated)
    IN [total_citations |-> Len(cits),
        validated |-> validated,
        failed |-> Len(cits) - validated,
        validation_rate |-> IF Len(cits) > 0 THEN Ratio(validated, Len(cits)) ELSE Zero,
        average_completeness |-> get_average_completeness(cits),
        duplicates_found |-> Len(all_duplicates),
        issues |-> [k \in 1..Len(unvalidated) |->
                       [citation_id |-> cits[unvalidated[k]].id, type |-> "not_validated",
                        ids |-> << >>]]
                   \o [k \in 1..Len(all_duplicates) |->
                       LET i == all_duplicates[k]
                           dups == find_duplicates(cits[i], later(i))
                       IN [citation_id |-> cits[i].id, type |-> "duplicate",
                           ids |-> [d \in 1..Len(dups) |-> later(i)[dups[d]].id]]]]

\* CitationManager.validate_all
validate_all ==
    /\ result' = [NoCall EXCEPT !.op = "validate_all",
                                !.report = Some(ValidationReport(citations))]
    /\ UNCHANGED <<citations, doi_cache, pmid_cache, now, calls>>

\* the records found taken in the order of the store, not of the ids
ResolvedInStoreOrder(cits, citation_ids) ==
    SelectSeq(Positions(cits),
              LAMBDA i : \E k \in 1..Len(citation_ids) : get_citation(cits, citation_ids[k]) = i)

\* `[self.get_citation(cid) for cid in citation_ids]` without the None
\* entries: the positions of the records found, in the order of the ids
Resolved(cits, citation_ids) ==
    SelectSeq([k \in 1..Len(citation_ids) |-> get_citation(cits, citation_ids[k])],
              LAMBDA i : i # 0)

\* the author, year and number of format_intext, each with its placeholder
InTextLabels(cit) ==
    [author |-> IF Truthy(get_first_author_family_name(cit))
                THEN Val(get_first_author_family_name(cit)) ELSE "Unknown",
     year |-> IF TruthyInt(get_year(cit)) THEN IntToStr(Val(get_year(cit))) ELSE "n.d.",
     number |-> IF TruthyInt(cit.citation_number)
                THEN IntToStr(Val(cit.citation_number)) ELSE "?"]

\* the text format_intext returns
InText(cits, citation_ids, page_number) ==
    LET found == Resolved(cits, citation_ids)
        l(k) == InTextLabels(cits[found[k]])
    IN IF Len(found) = 0 THEN "[Citation not found]"
       ELSE IF Len(found) = 1
       THEN IF Truthy(page_number)
            THEN "(" \o l(1).author \o ", " \o l(1).year \o ", p. " \o Val(page_number)
                 \o ") [" \o l(1).number \o "]"
            ELSE "(" \o l(1).author \o ", " \o l(1).year \o ") [" \o l(1).number \o "]"
       ELSE "(" \o Join([k \in 1..Len(found) |->
                            l(k).author \o ", " \o l(k).year \o " [" \o l(k).number \o "]"],
                        "; ") \o ")"

\* f"{a.family}, {a.given or ''}"
FamilyGiven(a) == a.family \o ", " \o (IF Truthy(a.given) THEN Val(a.given) ELSE "")

\* the journal part of a bibliography entry
\* the author part of a bibliography entry
\* CitationManager.format_bibliography_entry
format_bibliography_entry(cits, citation_id) ==
    LET JournalString(cit) ==
            Val(cit.container_title)
            \o (IF Truthy(cit.volume) THEN ", " \o Val(cit.volume) ELSE "")
            \o (IF Truthy(cit.issue) THEN "(" \o Val(cit.issue) \o ")" ELSE "")
            \o (IF Truthy(cit.page) THEN ", " \o Val(cit.page) ELSE "")
            \o "."
    IN
        LET AuthorString(author) ==
                Strip(IF Len(author) = 1 THEN FamilyGiven(author[1])
                      ELSE IF Len(author) = 2
                      THEN FamilyGiven(author[1]) \o " & " \o FamilyGiven(author[2])
                      ELSE FamilyGiven(author[1]) \o " et al.")
        IN
            LET i == get_citation(cits, citation_id)
                cit == cits[i]
            IN IF i = 0 THEN "[Citation not found]"
               ELSE Join((IF Truthy(cit.author) THEN <<AuthorString(Val(cit.author))>> ELSE << >>)
                         \o (IF cit.issued # None /\ TruthyInt(get_year(cit))
                             THEN <<"(" \o IntToStr(Val(get_year(cit))) \o ").">> ELSE << >>)
                         \o (IF Truthy(cit.title) THEN <<Val(cit.title) \o ".">> ELSE << >>)
                         \o (IF Truthy(cit.container_title) THEN <<JournalString(cit)>> ELSE << >>)
                         \o (IF Truthy(cit.DOI) THEN <<"https://doi.org/" \o Val(cit.DOI)>>
                             ELSE IF Truthy(cit.URL) THEN <<Val(cit.URL)>> ELSE << >>),
                         " ")

\* `cit.citation_number or 0`
SortKey(cit) == IF TruthyInt(cit.citation_number) THEN Val(cit.citation_number) ELSE 0

\* the records left in the order in which they were selected
InOrderSelected(cits, ps) == ps

RECURSIVE SortedByNumber(_, _)
\* sorted(citations, key=lambda c: c.citation_number or 0) on positions: a
\* stable sort, the smallest key first and of equal keys the earliest
SortedByNumber(cits, ps) ==
    IF Len(ps) = 0 THEN << >>
    ELSE LET k == CHOOSE k \in 1..Len(ps) :
                     /\ \A j \in 1..Len(ps) : SortKey(cits[ps[k]]) <= SortKey(cits[ps[j]])
                     /\ \A j \in 1..(k - 1) : SortKey(cits[ps[j]]) # SortKey(cits[ps[k]])
         IN <<ps[k]>> \o SortedByNumber(cits, SubSeq(ps, 1, k - 1) \o SubSeq(ps, k + 1, Len(ps)))

\* the text format_bibliography returns
Bibliography(cits, citation_ids) ==
    LET selected == IF Truthy(citation_ids) THEN Resolved(cits, Val(citation_ids))
                    ELSE Positions(cits)
        sorted == SortedByNumber(cits, selected)
    IN Join([k \in 1..Len(sorted) |->
                "[" \o (IF cits[sorted[k]].citation_number = None THEN "None"
                        ELSE IntToStr(Val(cits[sorted[k]].citation_number)))
                \o "] " \o format_bibliography_entry(cits, cits[sorted[k]].id)],
            "\n")

\* one entry of export_bibtex
BibtexEntry(cit) ==
    Join(<<"@" \o (IF cit.type = "article-journal" THEN "article" ELSE "misc")
           \o "{" \o cit.id \o ",">>
         \o (IF Truthy(cit.author)
             THEN <<"  author = {"
                    \o Join([k \in 1..Len(Val(cit.author)) |-> FamilyGiven(Val(cit.author)[k])],
                            " and ") \o "},">>
             ELSE << >>)
         \o (IF Truthy(cit.title) THEN <<"  title = {" \o Val(cit.title) \o "},">> ELSE << >>)
         \o (IF Truthy(cit.container_title)
             THEN <<"  journal = {" \o Val(cit.container_title) \o "},">> ELSE << >>)
         \o (IF cit.issued # None /\ TruthyInt(get_year(cit))
             THEN <<"  year = {" \o IntToStr(Val(get_year(cit))) \o "},">> ELSE << >>)
         \o (IF Truthy(cit.volume) THEN <<"  volume = {" \o Val(cit.volume) \o "},">> ELSE << >>)
         \o (IF Truthy(cit.issue) THEN <<"  number = {" \o Val(cit.issue) \o "},">> ELSE << >>)
         \o (IF Truthy(cit.page) THEN <<"  pages = {" \o Val(cit.page) \o "},">> ELSE << >>)
         \o (IF Truthy(cit.DOI) THEN <<"  doi = {" \o Val(cit.DOI) \o "},">> ELSE << >>)
         \o (IF Truthy(cit.URL) THEN <<"  url = {" \o Val(cit.URL) \o "},">> ELSE << >>)
         \o <<"}">>,
         "\n")

\* the dict get_quality_metrics returns (a key the dict lacks is None)
QualityMetrics(cits) ==
    LET n == Len(cits)
        validated == Len(SelectSeq(cits, LAMBDA c : c.validated))
        with_doi == Len(SelectSeq(cits, LAMBDA c : Truthy(c.DOI)))
        with_pmid == Len(SelectSeq(cits, LAMBDA c : Truthy(c.PMID)))
    IN IF n = 0
       THEN [total_citations |-> 0, validation_rate |-> Zero, average_completeness |-> Zero,
             citations_with_doi |-> 0, citations_with_doi_pct |-> None,
             citations_with_pmid |-> 0, citations_with_pmid_pct |-> None]
       ELSE [total_citations |-> n, validation_rate |-> Ratio(validated, n),
             average_completeness |-> get_average_completeness(cits),
             citations_with_doi |-> with_doi,
             citations_with_doi_pct |-> Some(Ratio(with_doi, n)),
             citations_with_pmid |-> with_pmid,
             citations_with_pmid_pct |-> Some(Ratio(with_pmid, n))]

\* CitationManager.format_intext
format_intext(citation_ids, page_number) ==
    /\ result' = [NoCall EXCEPT !.op = "format_intext", !.ids = Some(citation_ids),
                                !.page = page_number,
                                !.text = Some(InText(citations, citation_ids, page_number))]
    /\ UNCHANGED <<citations, doi_cache, pmid_cache, now, calls>>

\* CitationManager.format_bibliography
format_bibliography(citation_ids) ==
    /\ result' = [NoCall EXCEPT !.op = "format_bibliography", !.ids = citation_ids,
                                !.text = Some(Bibliography(citations, citation_ids))]
    /\ UNCHANGED <<citations, doi_cache, pmid_cache, now, calls>>

\* CitationManager.export_bibtex
export_bibtex ==
    /\ result' = [NoCall EXCEPT !.op = "export_bibtex",
                     !.text = Some(Join([k \in 1..Len(citations) |-> BibtexEntry(citations[k])],
                                        "\n\n"))]
    /\ UNCHANGED <<citations, doi_cache, pmid_cache, now, calls>>

\* CitationManager.get_quality_metrics
get_quality_metrics ==
    /\ result' = [NoCall EXCEPT !.op = "get_quality_metrics",
                                !.report = Some(QualityMetrics(citations))]
    /\ UNCHANGED <<citations, doi_cache, pmid_cache, now, calls>>

\* time.time() moves on between calls
TickStep == cache_ttl \div 2

\* the number of steps the clock is followed for
MaxTicks == 2

Tick == /\ now < MaxTicks * TickStep
        /\ now' = now + TickStep
        /\ UNCHANGED <<citations, doi_cache, pmid_cache, result, calls>>

\* the threads that call add_citation on one database at a time
MaxThreads == 2

\* a thread that is not inside add_citation; inside, pc is the statement it
\* is about to run, citation its argument and seen the length of the list
\* that the search for the id went through
NoAdd == [pc |-> "idle", citation |-> BlankCitation, seen |-> 0]

----------------------------------------------------------------------------
\* CitationManager.__init__: an empty database and two empty validator caches
Init == /\ citations = << >>
        /\ doi_cache = EmptyCache
        /\ pmid_cache = EmptyCache
        /\ now = 0
        /\ result = NoCall
        /\ calls = [t \in 1..MaxThreads |-> NoAdd]

\* the manager under serialized calls, the registries up or answering 500
Next == \/ \E doi \in {"https://doi.org/10.1038/N1", "10.1038/n1", "doi:10.1038/n2", "10.12/x"},
                 id \in CitationIds :
              add_from_doi(doi, id, Some("researcher"), {HttpResponse(500, None)})
        \/ \E pmid \in {"PMID: 123", "45", "12a"} :
              add_from_pmid(pmid, None, Some("researcher"), {HttpResponse(500, None)})
        \/ \E url \in {"https://doi.org/10.1038/n1", "https://www.example.com/a/",
                        "https://www.example.com/b", "example.com/a"} :
              add_from_url(url, None, Some("researcher"))
        \/ validate_all

Spec == Init /\ [][Next]_vars

\* the manager with the registries up, given ids and URLs that collide with
\* the ids generated for URLs
NextIds == \/ \E doi \in {"10.1038/n1", "doi:10.1038/n2"},
                    id \in {None, Some("web_www_example_com")} :
                 add_from_doi(doi, id, Some("researcher"), {})
           \/ \E id \in {None, Some("web_www_example_com")} :
                 add_from_pmid("PMID: 123", id, Some("researcher"), {})
           \/ \E url \in {"https://www.example.com/a/", "https://www.example.com/b",
                           "http://example.com/a", "https://doi.org/10.1038/n1"} :
                 add_from_url(url, None, Some("researcher"))

SpecIds == Init /\ [][NextIds]_vars

\* the validators behind the manager as time passes, the registries up or
\* failing in any way
NextCache == \/ \E doi \in {"10.1038/n1", "doi:10.1038/n9", "10.12/x"} :
                   add_from_doi(doi, None, Some("researcher"), TransientAnswers)
             \/ \E pmid \in {"45", "PMID: 9", "12a"} :
                   add_from_pmid(pmid, None, Some("researcher"),
                                 TransientAnswers \cup {HttpResponse(404, None), MalformedXml})
             \/ Tick

SpecCache == Init /\ [][NextCache]_vars

\* the lists of ids the formatting calls are given
IdLists == {<< >>, <<"smith2020">>, <<"nope">>, <<"web_doi_org", "smith2020">>,
            <<"10_1038_n2", "nope", "x1">>, <<"x1", "x1">>}

\* the manager with the registries up, read between the adds
NextReport == \/ \E doi \in {"10.1038/n1", "doi:10.1038/n2", "10.12/x"}, id \in CitationIds :
                    add_from_doi(doi, id, Some("researcher"), {})
              \/ \E pmid \in {"PMID: 123", "45"} :
                    add_from_pmid(pmid, None, Some("researcher"), {})
              \/ \E url \in {"https://doi.org/10.1038/n1", "example.com/a"} :
                    add_from_url(url, None, Some("researcher"))
              \/ validate_all
              \/ \E ids \in IdLists, page \in {None, Some(""), Some("42")} : format_intext(ids, page)
              \/ \E ids \in {None} \cup {Some(l) : l \in IdLists} : format_bibliography(ids)
              \/ export_bibtex
              \/ get_quality_metrics

SpecReport == Init /\ [][NextReport]_vars

\* the citations the detector and the completeness score are tried on: each
\* combines one choice of identifiers and validation state with one choice
\* of bibliographic fields
Samples ==
    LET a(family, given) == [family |-> family, given |-> given]
        d(parts) == Some([date_parts |-> <<parts>>])
        idents ==
          {[DOI |-> None, PMID |-> None, URL |-> None,
            validated |-> FALSE, validation_method |-> None],
           [DOI |-> Some("10.1038/N1"), PMID |-> None, URL |-> None,
            validated |-> TRUE, validation_method |-> Some("DOI")],
           [DOI |-> Some("doi:10.1038/n1"), PMID |-> Some("123"), URL |-> None,
            validated |-> TRUE, validation_method |-> Some("PMID")],
           [DOI |-> Some("10.1038/n2"), PMID |-> Some("123"),
            URL |-> Some("https://www.example.com/a/"),
            validated |-> FALSE, validation_method |-> Some("URL")],
           [DOI |-> Some("10.1038/n3"), PMID |-> Some("45"),
            URL |-> Some("http://example.com/a"),
            validated |-> TRUE, validation_method |-> Some("DOI")],
           [DOI |-> Some(""), PMID |-> Some(""), URL |-> Some("https://example.com/b"),
            validated |-> FALSE, validation_method |-> Some("manual")]}
        blank == [title |-> None, author |-> None, issued |-> None,
                  container_title |-> None, publisher |-> None, volume |-> None,
                  issue |-> None, page |-> None, PMCID |-> None, ISBN |-> None,
                  ISSN |-> None, abstract |-> None, keyword |-> None]
        bibs ==
          {blank,
           [blank EXCEPT !.title = Some("Deep Nets"),
                         !.author = Some(<<a("Smith", Some("J"))>>), !.issued = d(<<2020>>)],
           [blank EXCEPT !.title = Some("Deep nets!"),
                         !.author = Some(<<a("Smith", Some("J"))>>), !.issued = d(<<2020, 6>>),
                         !.container_title = Some("Nature"), !.publisher = Some("Springer"),
                         !.volume = Some("7"), !.issue = Some("2"), !.page = Some("1-9"),
                         !.PMCID = Some("PMC9"), !.ISBN = Some("978-1"),
                         !.ISSN = Some("1234-5678"), !.abstract = Some("abc"),
                         !.keyword = Some("ml")],
           [blank EXCEPT !.title = Some("Deep Nets"),
                         !.author = Some(<<a("Jones", Some("J"))>>), !.issued = d(<<2021>>),
                         !.container_title = Some("Science"), !.publisher = Some(""),
                         !.volume = Some("8"), !.issue = Some(""), !.page = Some("2-3"),
                         !.PMCID = Some("PMC1"), !.ISBN = Some(""),
                         !.ISSN = Some("8765-4321"), !.abstract = Some(""),
                         !.keyword = Some("ai")],
           [blank EXCEPT !.title = Some("Deep Nets"), !.author = Some(<< >>),
                         !.issued = d(<<2020>>)],
           [blank EXCEPT !.title = Some("Deep Nets"),
                         !.author = Some(<<a("Smith", Some("J"))>>), !.issued = d(<<2021, 1>>)],
           [blank EXCEPT !.title = Some("Deep Netz"),
                         !.author = Some(<<a("Smith", Some("J")), a("Lee", Some("K"))>>),
                         !.issued = d(<<2020, 6, 15>>)],
           [blank EXCEPT !.title = Some("Deep Nets"),
                         !.author = Some(<<a("Smith", Some("J")), a("Leo", Some("K"))>>),
                         !.issued = d(<<2020>>)],
           [blank EXCEPT !.title = Some("Deep Nets"),
                         !.author = Some(<<a("Smith", Some("J")), a("Lee", None)>>),
                         !.issued = Some([date_parts |-> << >>])]}
    IN {[BlankCitation EXCEPT
            !.id = "s", !.type = "article-journal",
            !.DOI = i.DOI, !.PMID = i.PMID, !.URL = i.URL,
            !.validated = i.validated, !.validation_method = i.validation_method,
            !.title = b.title, !.author = b.author, !.issued = b.issued,
            !.container_title = b.container_title, !.publisher = b.publisher,
            !.volume = b.volume, !.issue = b.issue, !.page = b.page,
            !.PMCID = b.PMCID, !.ISBN = b.ISBN, !.ISSN = b.ISSN,
            !.abstract = b.abstract, !.keyword = b.keyword] : i \in idents, b \in bibs}

\* two citations in hand: citations[1] is cit1 / original, citations[2] is
\* cit2 / duplicate
InitPair == /\ citations \in {<<[c1 EXCEPT !.id = "a", !.citation_number = Some(1),
                                            !.added_by = Some("researcher")],
                                 [c2 EXCEPT !.id = "b", !.type = "book",
                                            !.citation_number = Some(2),
                                            !.added_by = Some("analyst")]>> :
                                 c1 \in Samples, c2 \in Samples}
            /\ doi_cache = EmptyCache
            /\ pmid_cache = EmptyCache
            /\ now = 0
            /\ result = NoCall
            /\ calls = [t \in 1..MaxThreads |-> NoAdd]

\* DuplicateDetector._calculate_duplicate_score(cit1, cit2)
ScorePair ==
    /\ result' = [NoCall EXCEPT !.op = "calculate_duplicate_score",
                     !.score = Some(calculate_duplicate_score(citations[1], citations[2]))]
    /\ UNCHANGED <<citations, doi_cache, pmid_cache, now, calls>>

\* DuplicateDetector.merge_citations(original, duplicate): original is
\* modified in place
MergePair ==
    /\ citations' = [citations EXCEPT ![1] = merge_citations(citations[1], citations[2])]
    /\ result' = [NoCall EXCEPT !.op = "merge_citations", !.returned = 1]
    /\ UNCHANGED <<doi_cache, pmid_cache, now, calls>>

\* CSLCitation.get_completeness_score() of the first citation
ScoreCompleteness ==
    /\ result' = [NoCall EXCEPT !.op = "get_completeness_score",
                     !.score = Some(get_completeness_score(citations[1]))]
    /\ UNCHANGED <<citations, doi_cache, pmid_cache, now, calls>>

NextPair == ScorePair \/ MergePair \/ ScoreCompleteness

SpecPair == InitPair /\ [][NextPair]_vars

----------------------------------------------------------------------------
(* The functions tried on their own inputs                                 *)

\* the longest list of inputs tried
MaxInputs == 3

\* knowledge sources whose input_index counts only the inputs kept
SourcesNumberedAfterSkipping(inputs) ==
    LET input_list == IF inputs.kind = "None" THEN << >>
                      ELSE IF inputs.kind = "str" THEN <<inputs.value>> ELSE inputs.value
        kept == SelectSeq(Positions(input_list), LAMBDA idx : Len(Strip(input_list[idx])) > 0)
    IN [k \in 1..Len(kept) |->
           [content |-> input_list[kept[k]], source_type |-> "previous_crew_output",
            input_index |-> k, source_name |-> "reference_input_" \o IntToStr(k),
            content_length |-> Len(input_list[kept[k]])]]

\* knowledge_processor.create_knowledge_sources_from_inputs: inputs is None,
\* a str or a list of str; the content and the metadata of each source
create_knowledge_sources_from_inputs(inputs) ==
    IF inputs.kind = "None" \/ Len(inputs.value) = 0 THEN << >>
    ELSE LET input_list == IF inputs.kind = "str" THEN <<inputs.value>> ELSE inputs.value
             kept == SelectSeq(Positions(input_list),
                               LAMBDA idx : /\ Len(input_list[idx]) > 0
                                            /\ Len(Strip(input_list[idx])) > 0)
         IN [k \in 1..Len(kept) |->
                [content |-> input_list[kept[k]], source_type |-> "previous_crew_output",
                 input_index |-> kept[k],
                 source_name |-> "reference_input_" \o IntToStr(kept[k]),
                 content_length |-> Len(input_list[kept[k]])]]

\* a call of create_knowledge_sources_from_inputs
CreateKnowledgeSources(inputs) ==
    /\ result' = [NoCall EXCEPT !.op = "create_knowledge_sources_from_inputs",
                     !.input = Some(inputs),
                     !.output = Some(create_knowledge_sources_from_inputs(inputs))]
    /\ UNCHANGED <<citations, doi_cache, pmid_cache, now, calls>>

\* the PubDate part of PMIDValidator._extract_metadata on a PubDate element
\* with the given Year, Month and Day (None: no such element)
ExtractPubDate(year, month, day) ==
    /\ result' = [NoCall EXCEPT !.op = "extract_metadata",
                     !.input = Some([year |-> year, month |-> month, day |-> day]),
                     !.output = Some(PubDateParts([year |-> year, month |-> month,
                                                   day |-> day]))]
    /\ UNCHANGED <<citations, doi_cache, pmid_cache, now, calls>>

\* the two normalizations of a pair of DOI strings and the duplicate score of
\* two citations that have nothing but these DOIs
NormalizeDoiPair(doi1, doi2) ==
    /\ result' = [NoCall EXCEPT !.op = "normalize_doi",
                     !.input = Some(<<doi1, doi2>>),
                     !.output = Some(<<DOIValidator_normalize_doi(doi1),
                                      DOIValidator_normalize_doi(doi2)>>),
                     !.score = Some(calculate_duplicate_score(
                                       [BlankCitation EXCEPT !.DOI = Some(doi1)],
                                       [BlankCitation EXCEPT !.DOI = Some(doi2)]))]
    /\ UNCHANGED <<citations, doi_cache, pmid_cache, now, calls>>

\* the functions on the inputs of their callers
NextFunctions ==
    \/ \E year \in {None, Some(""), Some("2021")},
          month \in {None, Some(""), Some("Jun"), Some(" june "), Some("06"), Some("0"),
                     Some("Spring")},
          day \in {None, Some(""), Some("15")} :
          ExtractPubDate(year, month, day)
    \/ \E inputs \in {[kind |-> "None", value |-> ""]}
                     \cup {[kind |-> "str", value |-> v] : v \in {"", " \n", "# A", " B "}}
                     \cup {[kind |-> "list", value |-> l] :
                              l \in UNION {[1..n -> {"", " \n", "# A", " B "}] :
                                             n \in 0..MaxInputs}} :
          CreateKnowledgeSources(inputs)
    \/ \E doi1, doi2 \in {"10.1038/n1", "10.1038/N1", "doi:10.1038/n1",
                           "https://doi.org/10.1038/n1", " 10.1038/n2 ", "10.1038/n-1",
                           "10.1038/n_1", "10.12/x"} :
          NormalizeDoiPair(doi1, doi2)

SpecFunctions == Init /\ [][NextFunctions]_vars

----------------------------------------------------------------------------
(* CitationDatabase.add_citation called from several threads, statement by *)
(* statement                                                               *)

\* a call that goes on to the number assignment without the search for the id
EnterWithoutSearch(t, citation) ==
    /\ calls[t].pc = "idle"
    /\ Len(citations) + Cardinality({u \in DOMAIN calls : calls[u].pc # "idle"})
       < MaxCitations
    /\ calls' = [calls EXCEPT ![t] = [pc |-> "number", citation |-> citation,
                                      seen |-> Len(citations)]]
    /\ UNCHANGED <<citations, doi_cache, pmid_cache, now, result>>

\* thread t calls add_citation(citation) and runs the search for the id: the
\* call returns the record found, or goes on to the number assignment
SearchId(t, citation) ==
    /\ calls[t].pc = "idle"
    /\ Len(citations) + Cardinality({u \in DOMAIN calls : calls[u].pc # "idle"})
       < MaxCitations
    /\ IF FirstWithId(citations, citation.id) # 0
       THEN /\ result' = [NoCall EXCEPT !.op = "add_citation", !.arg = citation.id,
                             !.returned = FirstWithId(citations, citation.id)]
            /\ UNCHANGED calls
       ELSE /\ calls' = [calls EXCEPT ![t] = [pc |-> "number", citation |-> citation,
                                              seen |-> Len(citations)]]
            /\ UNCHANGED result
    /\ UNCHANGED <<citations, doi_cache, pmid_cache, now>>

\* thread t runs `citation.citation_number = len(self.citations) + 1`
AssignNumber(t) ==
    /\ calls[t].pc = "number"
    /\ calls' = [calls EXCEPT ![t].pc = "append",
                              ![t].citation = Numbered(citations, calls[t].citation)]
    /\ UNCHANGED <<citations, doi_cache, pmid_cache, now, result>>

\* thread t runs `self.citations.append(citation)` and returns the citation
AppendCitation(t) ==
    /\ calls[t].pc = "append"
    /\ citations' = Append(citations, calls[t].citation)
    /\ calls' = [calls EXCEPT ![t] = NoAdd]
    /\ result' = [NoCall EXCEPT !.op = "add_citation", !.arg = calls[t].citation.id,
                     !.returned = Len(citations) + 1]
    /\ UNCHANGED <<doi_cache, pmid_cache, now>>

\* the threads, one statement of one of them at a time
NextThreads ==
    \E t \in 1..MaxThreads :
       \/ \E id \in {"smith2020", "web_doi_org", "x1"} :
             SearchId(t, [BlankCitation EXCEPT !.id = id, !.type = "webpage"])
       \/ AssignNumber(t)
       \/ AppendCitation(t)

SpecThreads == Init /\ [][NextThreads]_vars

----------------------------------------------------------------------------
(* Properties of the store                                                 *)

\* C1: after any sequence of add_from_doi / add_from_pmid / add_from_url
\* calls the N records of the store carry exactly the numbers 1..N, the k-th
\* inserted record carries k, and no two records share a number
C1_NumbersFollowInsertion ==
    /\ \A k \in 1..Len(citations) : citations[k].citation_number = Some(k)
    /\ \A i, j \in 1..Len(citations) :
          citations[i].citation_number = citations[j].citation_number => i = j
    /\ {Val(citations[k].citation_number) : k \in 1..Len(citations)} = 1..Len(citations)

\* a second or later record has just been appended
C1_Witness ==
    /\ Len(citations) >= 2
    /\ result.raised = ""
    /\ result.op = "add_from_url"
    /\ result.returned = Len(citations)

\* C2: no two records of the store have the same id
C2_IdsAreUnique ==
    \A i, j \in 1..Len(citations) : citations[i].id = citations[j].id => i = j

\* add_from_doi built a citation whose id a record stored by add_from_pmid has
C2_Witness ==
    /\ Len(citations) >= 2
    /\ result.op = "add_from_doi"
    /\ result.built # None
    /\ result.duplicates = << >>
    /\ result.returned # 0
    /\ result.returned < Len(citations)
    /\ citations[result.returned].id = Val(result.built).id
    /\ citations[result.returned].validation_method = Some("PMID")

\* C3: an add of a citation whose id is already in the store returns the
\* stored record and leaves the store as it was: that record's fields, the
\* count and the order of the records
C3_AddIsIdempotentOnId ==
    [][\A i \in 1..Len(citations) :
          (/\ result'.built # None
           /\ result'.duplicates = << >>
           /\ Val(result'.built).id = citations[i].id)
          => /\ result'.raised = ""
             /\ result'.returned = i
             /\ get_citations_count(citations') = get_citations_count(citations)
             /\ citations' = citations]_vars

\* add_from_pmid built a citation with the id of a record add_from_doi stored,
\* and with other fields than that record
C3_Witness ==
    /\ result.op = "add_from_pmid"
    /\ result.built # None
    /\ result.duplicates = << >>
    /\ result.returned # 0
    /\ citations[result.returned].id = Val(result.built).id
    /\ citations[result.returned].validation_method = Some("DOI")
    /\ citations[result.returned].PMID # Val(result.built).PMID

\* C4: a stored record that has a citation_number keeps it, at its place and
\* under its id, through every later call (an add, a merge of a duplicate into
\* it, validate_all, a format, export or metrics call), and no other record
\* gets that number
C4_NumberNeverChanges ==
    [][\A i \in 1..Len(citations) :
          citations[i].citation_number # None
          => /\ i <= Len(citations')
             /\ citations'[i].id = citations[i].id
             /\ citations'[i].citation_number = citations[i].citation_number
             /\ \A j \in 1..Len(citations') :
                   citations'[j].citation_number = citations[i].citation_number => j = i]_vars

\* a duplicate has just been merged into a numbered record of a store of two
C4_Witness ==
    /\ Len(citations) >= 2
    /\ result.op \in {"add_from_doi", "add_from_pmid"}
    /\ result.raised = ""
    /\ result.duplicates # << >>
    /\ citations[result.returned].citation_number = Some(result.returned)
    /\ citations[result.returned].DOI = Val(result.built).DOI
    /\ citations[result.returned].id # Val(result.built).id

\* C5: no two distinct records of the store have a positive duplicate score
\* with each other, so none share a normalized DOI, a PMID or a normalized URL
C5_NoTwoRecordsOfOneSource ==
    \A i, j \in 1..Len(citations) :
        i # j => ~Positive(calculate_duplicate_score(citations[i], citations[j]))

\* C6: add_from_doi with no citation_id, for a DOI that an earlier add_from_doi
\* validated and stored (in any casing or prefix variant), returns that record
\* and leaves the number of records as it was
C6_SameDoiTwiceSucceeds ==
    [][\A i \in 1..Len(citations) :
          (/\ result'.op = "add_from_doi"
           /\ result'.citation_id = None
           /\ result'.key # None
           /\ result'.valid
           /\ Val(result'.key) \in DOMAIN doi_cache
           /\ doi_cache[Val(result'.key)].valid
           /\ citations[i].DOI # None
           /\ DOIValidator_normalize_doi(Val(citations[i].DOI))
                 = DOIValidator_normalize_doi(result'.arg))
          => /\ result'.raised = ""
             /\ result'.returned # 0
             /\ Len(citations') = Len(citations)
             /\ citations'[result'.returned].DOI # None
             /\ DOIValidator_normalize_doi(Val(citations'[result'.returned].DOI))
                   = DOIValidator_normalize_doi(result'.arg)]_vars

\* C7: when add_from_doi / add_from_pmid has built a citation that has
\* duplicates in the store, it is merged into the first of them in store
\* order, that record is returned, and the count and the ids of the records
\* stay; a record is appended only when there is no duplicate
C7_MergesIntoFirstDuplicate ==
    [][(result'.op \in {"add_from_doi", "add_from_pmid"} /\ result'.built # None)
       => \A built \in {Val(result'.built)} :
          \A matches \in {{i \in 1..Len(citations) :
                             /\ citations[i].id # built.id
                             /\ Positive(calculate_duplicate_score(built, citations[i]))}} :
             IF matches # {}
             THEN \A first \in {i \in matches : \A j \in matches : i <= j} :
                     /\ result'.raised = ""
                     /\ result'.returned = first
                     /\ Len(citations') = Len(citations)
                     /\ \A k \in 1..Len(citations) : citations'[k].id = citations[k].id
                     /\ citations'[first] = merge_citations(citations[first], built)
                     /\ \A k \in 1..Len(citations) : k # first => citations'[k] = citations[k]
             ELSE Len(citations') # Len(citations)
                  => citations' = Append(citations,
                        [built EXCEPT !.citation_number = Some(Len(citations) + 1)])]_vars

\* a built citation had two duplicates in the store and the first was returned
C7_Witness ==
    /\ result.op \in {"add_from_doi", "add_from_pmid"}
    /\ result.raised = ""
    /\ Len(result.duplicates) >= 2
    /\ result.returned = result.duplicates[1]
    /\ result.returned < result.duplicates[2]

----------------------------------------------------------------------------
(* Properties of the validators                                            *)

\* C8: when the validator returns no citation (malformed identifier, not
\* found, transient failure) add_from_doi / add_from_pmid raise and the store
\* keeps its records, their fields and its count
C8_InvalidLeavesStoreUnchanged ==
    [][(/\ result'.op \in {"add_from_doi", "add_from_pmid"}
        /\ now' = now
        /\ ~result'.valid)
       => /\ result'.raised = "ValueError"
          /\ result'.returned = 0
          /\ citations' = citations]_vars

\* a transient failure has just been signalled on a store that holds a record
C8_Witness ==
    /\ Len(citations) >= 1
    /\ result.op = "add_from_pmid"
    /\ result.answer = Some(RequestFailure("ConnectionError"))
    /\ ~result.valid
    /\ result.raised = "ValueError"

\* C9: a validate call for the normalized identifier k queries the registry
\* if and only if the cache has no entry for k or now - timestamp >= cache_ttl;
\* otherwise it returns the cached (valid, metadata) without a query
C9_QueryIffNoFreshEntry ==
    [][(/\ result'.op \in {"add_from_doi", "add_from_pmid"}
        /\ now' = now
        /\ result'.key # None)
       => LET k == Val(result'.key)
              cache == IF result'.op = "add_from_doi" THEN doi_cache ELSE pmid_cache
              missing == k \notin DOMAIN cache
              expired == k \in DOMAIN cache /\ now - cache[k].timestamp >= cache_ttl
          IN /\ result'.queries = (IF missing \/ expired THEN 1 ELSE 0)
             /\ (result'.answer # None) <=> (missing \/ expired)
             /\ ~(missing \/ expired)
                => /\ result'.valid = cache[k].valid
                   /\ result'.metadata = cache[k].metadata
                   /\ doi_cache' = doi_cache
                   /\ pmid_cache' = pmid_cache]_vars

\* an entry written at an earlier time has just been served from the cache
C9_Witness ==
    /\ result.op = "add_from_pmid"
    /\ result.key # None
    /\ result.queries = 0
    /\ Val(result.key) \in DOMAIN pmid_cache
    /\ now - pmid_cache[Val(result.key)].timestamp = TickStep

\* C10: a transient registry failure (timeout, network error, a status other
\* than 200 and 404) leaves the cache as it was and returns (False, {error});
\* the call made one request, and no fresh entry for the identifier exists
\* afterwards, so the next call queries again
C10_TransientFailureNotCached ==
    [][(/\ result'.op \in {"add_from_doi", "add_from_pmid"}
        /\ now' = now
        /\ result'.answer # None
        /\ Val(result'.answer) \in TransientAnswers)
       => LET k == Val(result'.key)
              after == IF result'.op = "add_from_doi" THEN doi_cache' ELSE pmid_cache'
          IN /\ doi_cache' = doi_cache
             /\ pmid_cache' = pmid_cache
             /\ result'.queries = 1
             /\ ~result'.valid
             /\ result'.metadata # None
             /\ Val(result'.metadata).error # None
             /\ Val(result'.metadata) = ErrorMetadata(Val(Val(result'.metadata).error))
             /\ ~(k \in DOMAIN after /\ now' - after[k].timestamp < cache_ttl)]_vars

\* a request for an identifier whose entry had expired has just timed out
C10_Witness ==
    /\ result.op = "add_from_doi"
    /\ result.answer = Some(RequestFailure("Timeout"))
    /\ Val(result.key) \in DOMAIN doi_cache
    /\ doi_cache[Val(result.key)].valid
    /\ now - doi_cache[Val(result.key)].timestamp >= cache_ttl

----------------------------------------------------------------------------
(* Properties of the validators and the detector                           *)

\* C11: when the registry answers HTTP 404 to a validate call of either
\* validator, the call returns (False, None) and leaves a fresh cache entry
\* {valid: False, metadata: None} for the identifier, so that a repeated call
\* within cache_ttl is answered from the cache
C11_NotFoundIsCachedInvalid ==
    [][(/\ result'.op \in {"add_from_doi", "add_from_pmid"}
        /\ now' = now
        /\ result'.answer # None
        /\ Val(result'.answer).exc = ""
        /\ Val(result'.answer).status = 404)
       => \A after \in {IF result'.op = "add_from_doi" THEN doi_cache' ELSE pmid_cache'} :
          \A k \in {Val(result'.key)} :
             /\ ~result'.valid
             /\ result'.metadata = None
             /\ k \in DOMAIN after
             /\ after[k] = [valid |-> FALSE, metadata |-> None, timestamp |-> now]]_vars

\* C12: the duplicate score of two citations is 1.0 whenever both carry a DOI
\* and the normalized DOIs are equal, or both carry a PMID and the strings are
\* equal, or both carry a URL and the normalized URLs are equal, whatever the
\* titles, authors and years, and whether or not an earlier identifier kind
\* is present on both and differs
C12_IdentifierMatchScoresOne ==
    [][result'.op = "calculate_duplicate_score"
       => \A a \in {citations[1]} : \A b \in {citations[2]} :
            (\/ /\ a.DOI # None /\ b.DOI # None /\ Val(a.DOI) # "" /\ Val(b.DOI) # ""
                /\ DuplicateDetector_normalize_doi(Val(a.DOI))
                   = DuplicateDetector_normalize_doi(Val(b.DOI))
             \/ /\ a.PMID # None /\ b.PMID # None /\ Val(a.PMID) # ""
                /\ Val(a.PMID) = Val(b.PMID)
             \/ /\ a.URL # None /\ b.URL # None
                /\ normalize_url(Val(a.URL)) = normalize_url(Val(b.URL)))
            => Val(result'.score) = One]_vars

\* a score of 1.0 has just been given to two citations whose DOIs differ and
\* whose PMIDs differ, by their URLs alone, their authors and years differing
C12_Witness ==
    /\ result.op = "calculate_duplicate_score"
    /\ Val(result.score) = One
    /\ Truthy(citations[1].DOI) /\ Truthy(citations[2].DOI)
    /\ DuplicateDetector_normalize_doi(Val(citations[1].DOI))
       # DuplicateDetector_normalize_doi(Val(citations[2].DOI))
    /\ Truthy(citations[1].PMID) /\ Truthy(citations[2].PMID)
    /\ citations[1].PMID # citations[2].PMID
    /\ citations[1].URL # citations[2].URL
    /\ get_year(citations[1]) # get_year(citations[2])
    /\ get_first_author_family_name(citations[1]) # get_first_author_family_name(citations[2])

\* C13: when no identifier strategy matches, the duplicate score is positive
\* exactly when the title similarity exceeds title_threshold, the author
\* similarity exceeds author_threshold, and both citations have a year and the
\* years are equal; it is then the average of the two similarities, and 0.0
\* otherwise. Different years, a missing year or a missing author list on
\* either side therefore give 0.0
C13_FuzzyNeedsTitleAuthorYear ==
    [][result'.op = "calculate_duplicate_score"
       => \A a \in {citations[1]} : \A b \in {citations[2]} :
          \A score \in {Val(result'.score)} :
          \A t \in {title_similarity(a.title, b.title)} :
          \A au \in {author_similarity(a.author, b.author)} :
            ~(\/ /\ Truthy(a.DOI) /\ Truthy(b.DOI)
                 /\ DuplicateDetector_normalize_doi(Val(a.DOI))
                    = DuplicateDetector_normalize_doi(Val(b.DOI))
              \/ Truthy(a.PMID) /\ Truthy(b.PMID) /\ Val(a.PMID) = Val(b.PMID)
              \/ /\ Truthy(a.URL) /\ Truthy(b.URL)
                 /\ normalize_url(Val(a.URL)) = normalize_url(Val(b.URL)))
            => /\ score.num > 0
                  <=> /\ t.num * 100 > title_threshold * t.den
                      /\ au.num * 100 > author_threshold * au.den
                      /\ get_year(a) # None /\ get_year(b) # None
                      /\ Val(get_year(a)) = Val(get_year(b))
               /\ score.num > 0
                  => score.num * (2 * t.den * au.den)
                     = (t.num * au.den + au.num * t.den) * score.den
               /\ (\/ get_year(a) = None \/ get_year(b) = None
                   \/ get_year(a) # get_year(b)
                   \/ a.author = None \/ b.author = None
                   \/ Val(a.author) = << >> \/ Val(b.author) = << >>)
                  => score.num = 0]_vars

\* two citations with no identifier in common have just been scored above 0
\* and below 1 on their titles, authors and year
C13_Witness ==
    /\ result.op = "calculate_duplicate_score"
    /\ Val(result.score).num > 0
    /\ Val(result.score).num < Val(result.score).den
    /\ ~Truthy(citations[1].DOI) /\ ~Truthy(citations[1].PMID)
    /\ citations[1].title # citations[2].title
    /\ get_year(citations[1]) = get_year(citations[2])

\* C14: merge_citations never overwrites a non-empty value: for each of the
\* fourteen merged fields, a non-empty value of original is the same after
\* the merge, and an empty one is replaced by duplicate's when that is not empty
C14_MergeKeepsNonEmptyFields ==
    [][result'.op = "merge_citations"
       => \A f \in {"title", "container_title", "publisher", "volume", "issue", "page",
                    "DOI", "PMID", "PMCID", "ISBN", "ISSN", "URL", "abstract", "keyword"} :
            \A orig \in {citations[1][f]} : \A dup \in {citations[2][f]} :
               /\ (orig # None /\ Val(orig) # "") => citations'[1][f] = orig
               /\ ((orig = None \/ Val(orig) = "") /\ dup # None /\ Val(dup) # "")
                  => citations'[1][f] = dup]_vars

\* a merge has just given original the journal it lacked and left it the
\* title and the DOI in which it differs from duplicate
C14_Witness ==
    /\ result.op = "merge_citations"
    /\ citations[1].title = Some("Deep Nets")
    /\ citations[2].title = Some("Deep nets!")
    /\ citations[1].container_title = Some("Nature")
    /\ Truthy(citations[1].DOI) /\ Truthy(citations[2].DOI)
    /\ citations[1].DOI # citations[2].DOI

\* C15: merge_citations replaces original.author by duplicate.author exactly
\* when duplicate has at least one author and original has none or fewer;
\* otherwise, and so with equal counts and different names, original.author
\* stays as it was
C15_MergeTakesLongerAuthorList ==
    [][result'.op = "merge_citations"
       => \A orig \in {citations[1].author} : \A dup \in {citations[2].author} :
          \A n \in {IF orig = None THEN 0 ELSE Len(Val(orig))} :
          \A m \in {IF dup = None THEN 0 ELSE Len(Val(dup))} :
             citations'[1].author = (IF m >= 1 /\ (n = 0 \/ m > n) THEN dup ELSE orig)]_vars

\* a merge has just left original its one author although duplicate names
\* another one
C15_Witness ==
    /\ result.op = "merge_citations"
    /\ Truthy(citations[1].author) /\ Truthy(citations[2].author)
    /\ Len(Val(citations[1].author)) = Len(Val(citations[2].author))
    /\ Val(citations[1].author)[1].family # Val(citations[2].author)[1].family

\* C16: after merge_citations original.validated is (original.validated
\* before or duplicate.validated), and original.validation_method changes
\* only when original was unvalidated and duplicate validated, to duplicate's
\* method; so a validated record stays validated
C16_MergeNeverUnvalidates ==
    [][result'.op = "merge_citations"
       => \A orig \in {citations[1]} : \A dup \in {citations[2]} :
             /\ citations'[1].validated = (orig.validated \/ dup.validated)
             /\ citations'[1].validation_method =
                   (IF ~orig.validated /\ dup.validated THEN dup.validation_method
                    ELSE orig.validation_method)
             /\ orig.validated => citations'[1].validated]_vars

\* a validated original has just been merged with an unvalidated duplicate
\* that carries another method, and kept its state and method
C16_Witness ==
    /\ result.op = "merge_citations"
    /\ citations[1].validated
    /\ ~citations[2].validated
    /\ citations[1].validation_method = Some("PMID")
    /\ citations[2].validation_method = Some("URL")

\* C16, for the store: no call of the manager turns a validated record into
\* an unvalidated one (checked under Spec, where the merges are those of
\* add_from_doi and add_from_pmid)
C16_StoredRecordStaysValidated ==
    [][\A i \in 1..Len(citations) :
          citations[i].validated => i <= Len(citations') /\ citations'[i].validated]_vars

\* C17: a successful add_from_url runs the duplicate search on the new
\* citation before storing; when the search finds a duplicate the first one
\* found is returned and the store is left as it was, and otherwise a record
\* of type webpage with validated False and validation_method "URL" is
\* appended and returned
C17_AddFromUrlReturnsDuplicateOrAppends ==
    [][(result'.op = "add_from_url" /\ result'.raised = "")
       => \A built \in {Val(result'.built)} :
          \A found \in {find_duplicates(built, citations)} :
             /\ result'.duplicates = found
             /\ IF Len(found) > 0
                THEN /\ citations' = citations
                     /\ result'.returned = found[1]
                ELSE /\ Len(citations') = Len(citations) + 1
                     /\ SubSeq(citations', 1, Len(citations)) = citations
                     /\ result'.returned = Len(citations')
                     /\ citations'[Len(citations')].type = "webpage"
                     /\ citations'[Len(citations')].URL = Some(result'.arg)
                     /\ ~citations'[Len(citations')].validated
                     /\ citations'[Len(citations')].validation_method = Some("URL")]_vars

----------------------------------------------------------------------------
(* Properties of the completeness score and of the formatting calls        *)

\* C18, as stated: the completeness score of a citation whose only non-empty
\* fields among the twelve scored ones are title, author and issued is 6/17
C18_CoreOnlyScoresSixSeventeenths ==
    (/\ result.op = "get_completeness_score"
     /\ Truthy(citations[1].title) /\ Truthy(citations[1].author)
     /\ citations[1].issued # None
     /\ \A f \in {"container_title", "publisher", "DOI", "PMID", "URL",
                  "volume", "issue", "page", "abstract"} : ~Truthy(citations[1][f]))
    => Val(result.score).num * 17 = 6 * Val(result.score).den

\* C18: the completeness score of a citation whose only non-empty fields
\* among the twelve scored ones are title, author and issued is 6/19: the
\* weights present (2 + 2 + 2) over the weights of all twelve fields
\* (3 * 2 + 2 * 1.5 + 3 * 2 + 4 * 1 = 19)
C18_CoreOnlyScoresSixNineteenths ==
    (/\ result.op = "get_completeness_score"
     /\ Truthy(citations[1].title) /\ Truthy(citations[1].author)
     /\ citations[1].issued # None
     /\ \A f \in {"container_title", "publisher", "DOI", "PMID", "URL",
                  "volume", "issue", "page", "abstract"} : ~Truthy(citations[1][f]))
    => Val(result.score).num * 19 = 6 * Val(result.score).den

\* a citation with a title, an author and a date and none of the other nine
\* scored fields has just been scored
C18_Witness ==
    /\ result.op = "get_completeness_score"
    /\ result.score # None
    /\ citations[1].title = Some("Deep Nets")
    /\ Truthy(citations[1].author)
    /\ get_year(citations[1]) = Some(2020)
    /\ \A f \in {"container_title", "publisher", "DOI", "PMID", "URL",
                 "volume", "issue", "page", "abstract"} : ~Truthy(citations[1][f])

\* C19: format_intext leaves the store as it is and returns a text for any
\* list of ids: the ids that name no stored record are dropped and the others
\* are rendered in the order given. The text is the not-found marker exactly
\* when no id names a record, the single form "(Author, Year) [N]", with
\* ", p. <page>" when a page number is given, exactly when one does, and the
\* multiple form "(Author, Year [N]; ...)" otherwise, an id given twice
\* counting twice
C19_InTextDropsUnknownIds ==
    [][result'.op = "format_intext"
       => \A text \in {Val(result'.text)} :
          \A known \in {SelectSeq(Val(result'.ids),
                                  LAMBDA id : \E i \in 1..Len(citations) :
                                                 citations[i].id = id)} :
          \A labels \in {[k \in 1..Len(known) |->
                            InTextLabels(citations[CHOOSE i \in 1..Len(citations) :
                                                      citations[i].id = known[k]])]} :
             /\ citations' = citations
             /\ result'.raised = ""
             /\ text = "[Citation not found]" <=> Len(known) = 0
             /\ Ch(text, Len(text)) = "]" /\ Ch(text, 1) = "(" <=> Len(known) = 1
             /\ Ch(text, Len(text)) = ")" <=> Len(known) > 1
             /\ Len(known) = 1
                => text = "(" \o labels[1].author \o ", " \o labels[1].year
                          \o (IF Truthy(result'.page)
                              THEN ", p. " \o Val(result'.page) ELSE "")
                          \o ") [" \o labels[1].number \o "]"
             /\ Len(known) > 1
                => text = "(" \o Join([k \in 1..Len(known) |->
                                         labels[k].author \o ", " \o labels[k].year
                                         \o " [" \o labels[k].number \o "]"], "; ")
                          \o ")"]_vars

\* three ids, one of them unknown and the other two in the reverse of the
\* order of the store, have just been formatted
C19_Witness ==
    /\ result.op = "format_intext"
    /\ result.ids = Some(<<"10_1038_n2", "nope", "x1">>)
    /\ Len(citations) = 2
    /\ citations[1].id = "x1"
    /\ citations[2].id = "10_1038_n2"
    /\ Ch(Val(result.text), Len(Val(result.text))) = ")"

\* C20: the text of format_bibliography has one line for each selected
\* record (each id of the list that names a stored record, an id given twice
\* counting twice, or every record when no id is given), "[N] " followed by
\* the entry of the record, and the
\* lines are in ascending order of citation_number (a record without a number
\* counting as 0), whatever the order of the ids passed or their alphabetical
\* order; the bibliography of the whole store has the lines [1], [2], ...,
\* [N] of its N records in this order
C20_BibliographySortedByNumber ==
    [][result'.op = "format_bibliography"
       => \A text \in {Val(result'.text)} :
          \A selected \in {IF Truthy(result'.ids)
                           THEN SelectSeq(Val(result'.ids),
                                          LAMBDA id : \E i \in 1..Len(citations) :
                                                         citations[i].id = id)
                           ELSE [i \in 1..Len(citations) |-> citations[i].id]} :
             /\ citations' = citations
             /\ Cardinality({i \in 1..Len(text) : Ch(text, i) = "\n"})
                = (IF Len(selected) = 0 THEN 0 ELSE Len(selected) - 1)
             /\ Len(selected) = 0 <=> text = ""
             /\ \E order \in [1..Len(selected) -> 1..Len(citations)] :
                   /\ \A p \in 1..Len(citations) :
                         Cardinality({k \in 1..Len(selected) : order[k] = p})
                         = Cardinality({k \in 1..Len(selected) :
                                           selected[k] = citations[p].id})
                   /\ \A k \in 1..(Len(selected) - 1) :
                         SortKey(citations[order[k]]) <= SortKey(citations[order[k + 1]])
                   /\ text = Join([k \in 1..Len(selected) |->
                                     "[" \o IntToStr(Val(citations[order[k]].citation_number))
                                     \o "] "
                                     \o format_bibliography_entry(citations,
                                                                  citations[order[k]].id)],
                                  "\n")
             /\ ~Truthy(result'.ids)
                => \E starts \in {<<1>> \o SelectSeq([i \in 1..Len(text) |-> i + 1],
                                                     LAMBDA i : Ch(text, i - 1) = "\n")} :
                      /\ Len(citations) > 0 => Len(starts) = Len(citations)
                      /\ \A k \in 1..Len(citations) :
                            \E label \in {"[" \o IntToStr(k) \o "] "} :
                               SubSeq(text, starts[k], starts[k] + Len(label) - 1) = label]_vars

\* the bibliography of two records has just been asked for with the id of
\* the second record, alphabetically the smaller, passed first, and has the
\* first record on its first line
C20_Witness ==
    /\ result.op = "format_bibliography"
    /\ result.ids = Some(<<"10_1038_n2", "nope", "x1">>)
    /\ Len(citations) = 2
    /\ citations[1].id = "x1"
    /\ citations[2].id = "10_1038_n2"
    /\ SubSeq(Val(result.text), 1, 4) = "[1] "
    /\ \E i \in 1..Len(Val(result.text)) : SubSeq(Val(result.text), i, i + 4) = "\n[2] "

----------------------------------------------------------------------------
(* Properties of the extracted dates, the knowledge sources and the adds   *)

\* C21: whatever Year, Month and Day a PubDate has, the date_parts entry
\* extracted from it is [year], [year, month] or [year, month, day]: its first
\* component is the Year, its second the number of the Month, its third the
\* Day, and a Month that is not recognised gives no month component and
\* leaves a year-only date
C21_PubDateIsYearMonthDay ==
    (result.op = "extract_metadata" /\ Len(Val(result.output)) > 0)
    => \A pub_date \in {Val(result.input)} : \A parts \in {Val(result.output)} :
          /\ Len(parts) <= 3
          /\ Truthy(pub_date.year) /\ parts[1] = ParseInt(Val(pub_date.year))
          /\ Len(parts) >= 2
             => /\ Truthy(pub_date.month)
                /\ parse_month(Val(pub_date.month)) = Some(parts[2])
          /\ Len(parts) = 3
             => Truthy(pub_date.day) /\ parts[3] = ParseInt(Val(pub_date.day))
          /\ (Truthy(pub_date.month) /\ parse_month(Val(pub_date.month)) = None)
             => Len(parts) = 1

\* C22: create_knowledge_sources_from_inputs returns one source for each
\* input string that is not blank, in the order of the inputs, and the
\* input_index of a source is the 1-based position of its string in the list
\* given, the blank entries counted; None, an empty list, an empty string and
\* a string of whitespace give an empty list, and a single string gives what
\* the list of that one string gives
C22_OneSourcePerNonBlankInput ==
    result.op = "create_knowledge_sources_from_inputs"
    => \A inputs \in {Val(result.input)} : \A sources \in {Val(result.output)} :
       \A given \in {IF inputs.kind = "None" THEN << >>
                     ELSE IF inputs.kind = "str" THEN <<inputs.value>>
                     ELSE inputs.value} :
       \A kept \in {{i \in 1..Len(given) :
                        \E j \in 1..Len(given[i]) : Ch(given[i], j) \notin Whitespace}} :
          /\ Len(sources) = Cardinality(kept)
          /\ \A k \in 1..Len(sources) :
                /\ sources[k].input_index \in kept
                /\ sources[k].content = given[sources[k].input_index]
                /\ k > 1 => sources[k - 1].input_index < sources[k].input_index
          /\ inputs.kind = "str"
             => sources = create_knowledge_sources_from_inputs(
                             [kind |-> "list", value |-> <<inputs.value>>])

\* a list of three strings, the second of them blank, has just been turned
\* into two sources, of the first and of the third string
C22_Witness ==
    /\ result.op = "create_knowledge_sources_from_inputs"
    /\ Val(result.input) = [kind |-> "list", value |-> <<"# A", " \n", " B ">>]
    /\ Len(Val(result.output)) = 2
    /\ Val(result.output)[2].input_index = 3

\* C23: add_citation takes no lock, and an append keeps the ids and the
\* numbers of the store unique when no other call has appended since the
\* appending call searched the list for its id, that is, when the calls on
\* the store are serialized; between interleaved calls nothing keeps them
\* unique
C23_SerializedAddsKeepIdsAndNumbersUnique ==
    [][\A t \in DOMAIN calls :
          (/\ calls[t].pc = "append"
           /\ calls'[t].pc = "idle"
           /\ calls[t].seen = Len(citations)
           /\ \A i, j \in 1..Len(citations) :
                 i # j => /\ citations[i].id # citations[j].id
                          /\ citations[i].citation_number # citations[j].citation_number)
          => \A i, j \in 1..Len(citations') :
                i # j => /\ citations'[i].id # citations'[j].id
                         /\ citations'[i].citation_number # citations'[j].citation_number]_vars

\* two calls that interleaved have both appended: the store holds two
\* records with the same id and the same citation_number
C23_Witness ==
    /\ result.op = "add_citation"
    /\ Len(citations) = 2
    /\ citations[1].id = citations[2].id
    /\ citations[1].citation_number = citations[2].citation_number
    /\ \A t \in DOMAIN calls : calls[t].pc = "idle"

\* C24: when format_bibliography is given a list of ids, the empty list
\* included, its text has a line "[N] ..." only for the records whose id is
\* in the list; all the records are rendered only when citation_ids is None
C24_BibliographyOfListHasOnlyListed ==
    (result.op = "format_bibliography" /\ result.ids # None)
    => \A text \in {Val(result.text)} :
       \A i \in 1..Len(citations) :
          \A label \in {"[" \o IntToStr(Val(citations[i].citation_number)) \o "] "} :
             (\/ SubSeq(text, 1, Len(label)) = label
              \/ \E k \in 1..Len(text) :
                    SubSeq(text, k, k + Len(label)) = "\n" \o label)
             => \E k \in 1..Len(Val(result.ids)) : Val(result.ids)[k] = citations[i].id

\* C25: an entry of a validator cache holds what the live query wrote until
\* a live query for its key writes it again: the building of a citation from
\* the metadata that validate returned, a call answered from the cache and a
\* call for another key leave the valid flag, the metadata and the timestamp
\* of the entry as they were, and a call answered from a valid entry builds
\* its citation without an error
C25_CacheEntryNotModified ==
    [][\A op \in {"add_from_doi", "add_from_pmid"} :
       \A before \in {IF op = "add_from_doi" THEN doi_cache ELSE pmid_cache} :
       \A after \in {IF op = "add_from_doi" THEN doi_cache' ELSE pmid_cache'} :
          /\ DOMAIN before \subseteq DOMAIN after
          /\ \A k \in DOMAIN after :
                \/ k \in DOMAIN before /\ after[k] = before[k]
                \/ /\ now' = now /\ result'.op = op
                   /\ result'.key = Some(k) /\ result'.queries > 0
                   /\ after[k] = [valid |-> result'.valid, metadata |-> result'.metadata,
                                  timestamp |-> now]
          /\ (/\ now' = now /\ result'.op = op
              /\ result'.queries = 0 /\ result'.key # None
              /\ Val(result'.key) \in DOMAIN before
              /\ before[Val(result'.key)].valid)
             => result'.raised = ""]_vars

\* C26: the record that a successful add_from_doi or add_from_pmid returns
\* is validated and has a validation_method, whether the call appended it,
\* merged into it or found it under the id of the new citation
C26_ReturnedRecordIsValidated ==
    (/\ result.op \in {"add_from_doi", "add_from_pmid"}
     /\ result.raised = ""
     /\ result.returned # 0)
    => /\ citations[result.returned].validated
       /\ Truthy(citations[result.returned].validation_method)

\* C27: after add_from_url(u) has returned without an error, no citation_id
\* given, the record returned is a record of the store whose normalized URL
\* is the normalized u, also when a URL of the same domain was added before
C27_UrlAddReturnsRecordOfThatUrl ==
    (/\ result.op = "add_from_url"
     /\ result.raised = ""
     /\ result.citation_id = None)
    => /\ result.returned \in 1..Len(citations)
       /\ citations[result.returned].URL # None
       /\ normalize_url(Val(citations[result.returned].URL)) = normalize_url(result.arg)

\* C28: the store is append-only: no operation of the manager removes a
\* record or changes the order or the id of a stored record, the count of
\* records never decreases and grows by one at most, in an add call only,
\* and the record a successful add returns is a record of the store after
\* the call, with the id of the citation built or found as its duplicate
C28_StoreIsAppendOnly ==
    [][/\ Len(citations') \in {Len(citations), Len(citations) + 1}
       /\ \A i \in 1..Len(citations) : citations'[i].id = citations[i].id
       /\ Len(citations') = Len(citations) + 1
          => /\ result'.op \in {"add_from_doi", "add_from_pmid", "add_from_url"}
             /\ result'.raised = ""
             /\ result'.returned = Len(citations')
       /\ (/\ result'.op \in {"add_from_doi", "add_from_pmid", "add_from_url"}
           /\ result'.raised = "")
          => /\ result'.returned \in 1..Len(citations')
             /\ \/ citations'[result'.returned].id = Val(result'.built).id
                \/ \E k \in 1..Len(result'.duplicates) :
                      result'.duplicates[k] = result'.returned]_vars

\* an add has just merged its citation into the first of two stored records,
\* which has another id than the citation, and returned that record
C28_Witness ==
    /\ result.op \in {"add_from_doi", "add_from_pmid"}
    /\ result.raised = ""
    /\ Len(citations) = 2
    /\ result.returned = 1
    /\ result.duplicates # << >>
    /\ citations[1].id # Val(result.built).id

\* C29: for two DOI strings that DOIValidator._normalize_doi accepts, the
\* DOI strategy of the duplicate detector scores two citations carrying them
\* 1.0 exactly when the validator normalizes them to the same DOI
C29_DetectorAgreesWithValidatorOnDois ==
    (/\ result.op = "normalize_doi"
     /\ Val(result.output)[1] # None
     /\ Val(result.output)[2] # None)
    => (Val(result.output)[1] = Val(result.output)[2]
        <=> Val(result.score).num = Val(result.score).den)

\* C30: merge_citations(original, duplicate) leaves the id, the type, the
\* citation_number and added_by of original as they were, leaves every one of
\* the twelve scored fields that was non-empty on original non-empty, and so
\* does not lower the completeness score of original nor the average
\* completeness of the store
C30_MergeNeverLowersCompleteness ==
    [][result'.op = "merge_citations"
       => \A original \in {citations[1]} : \A merged \in {citations'[1]} :
          \A before \in {get_completeness_score(original)} :
          \A after \in {get_completeness_score(merged)} :
          \A avg_before \in {get_average_completeness(citations)} :
          \A avg_after \in {get_average_completeness(citations')} :
             /\ merged.id = original.id
             /\ merged.type = original.type
             /\ merged.citation_number = original.citation_number
             /\ merged.added_by = original.added_by
             /\ \A f \in {"title", "author", "container_title", "publisher", "DOI", "PMID",
                          "URL", "volume", "issue", "page", "abstract"} :
                   Truthy(original[f]) => Truthy(merged[f])
             /\ original.issued # None => merged.issued # None
             /\ after.num * before.den >= before.num * after.den
             /\ avg_after.num * avg_before.den >= avg_before.num * avg_after.den]_vars

\* a citation with a title, an author and a year has been merged with a
\* duplicate of another type, numbered 2 and added by another agent, and has
\* the journal of the duplicate
C30_Witness ==
    /\ result.op = "merge_citations"
    /\ citations[1].id = "a"
    /\ citations[1].citation_number = Some(1)
    /\ citations[1].title = Some("Deep Nets")
    /\ citations[1].container_title = Some("Nature")
    /\ citations[2].title = Some("Deep nets!")
    /\ citations[2].type = "book"

====
